---------------------------- MODULE Spec2Model ----------------------------
(***************************************************************************)
(* A model of the bucketed external-sort pipeline engine of bladebit's     *)
(* disk plotter:                                                           *)
(*   - DiskBufferQueue (src/src/diskplot/DiskBufferQueue.cpp): the command *)
(*     ring between the producer and the dispatch thread, and the command  *)
(*     handlers that touch the bucket files;                               *)
(*   - DiskF1 (src/src/plotdisk/DiskF1.h): the F1 generator;               *)
(*   - FxBucketJob (src/src/diskplot/jobs/FxGenBucketized.cpp): the Fx     *)
(*     evaluator and the bucket distributor.                               *)
(* Each part has its own specification over the module's variables; the    *)
(* variables of the other parts keep their initial values.                 *)
(***************************************************************************)
EXTENDS Integers, Sequences, FiniteSets, Bags, TLC

VARIABLES
    \* ---- the command ring (_commands) and its two signals
    ring,               \* _commands._buffer: slot -> command record
    writePosition,      \* _commands._writePosition
    pendingCount,       \* _commands._pendingCount: claimed, not committed
    committedCount,     \* _commands._committedCount: committed, not dequeued
    readPosition,       \* _commands._readPosition
    cmdReadySignal,     \* _cmdReadySignal (auto-reset)
    cmdConsumedSignal,  \* _cmdConsumedSignal (auto-reset)
    \* ---- the producer
    ppc,                \* where the producer is
    ptype,              \* the command type GetCommandObject was called with
    issued,             \* number of slots claimed so far; the k-th claim has id k
    committedIds,       \* number of claimed commands that were committed
    filled,             \* log: the commands as the producer filled them, by id
    \* ---- the dispatch thread (CommandMain)
    dpc,                \* where the dispatcher is
    commands,           \* its local array commands[CMD_BUF_SIZE]
    cmdCount,           \* result of the last Dequeue
    ci,                 \* index of the for loop over commands
    executed,           \* log: the commands ExecuteCommand ran, in order
    fenceSignals,       \* command id -> number of Signal() calls of its fence
    \* ---- the work heap (_workHeap) and the buffers of the commands
    heapFree,           \* the free list: the free spans of the arena
    heapLent,           \* the buffers Alloc returned so far, in order
    heapApplied,        \* number of releases CompletePendingReleases took
    cmdBuffer,          \* command id -> the buffer the producer put in it
    \* ---- the constructor
    ctorPc,             \* where the constructor is
    ctorFile,           \* number of files the InitFileSet calls went through
    _blockSize,         \* _blockSize (0: not set)
    _blockBuffer,       \* _blockBuffer is not null
    opened,             \* log: what each file reported: Open's result and
                        \* BlockSize()
    dispatchRunning,    \* _dispatchThread.Run was called
    \* ---- the bucket files and the command handlers that touch them
    useDirectIO,        \* _useDirectIO
    filePos,            \* bucket -> cursor of the file stream of that bucket
    fileLen,            \* bucket -> length of the file of that bucket
    ioPc,               \* where the handler of the command being executed is
    ioType,             \* type of the command being executed
    ioSizes,            \* cmd.buckets.sizes of the command being executed
    ioBucket,           \* the bucket whose file the handler works on
    ioBase,             \* CmdWriteBuckets: offset of `buffer` from cmd.buckets.buffers
    ioSrc,              \* WriteToFile, ReadFromFile: offset of `buffer` from the
                        \* command's buffer
    ioLeft,             \* size (WriteToFile, no direct I/O), sizeToWrite, sizeToRead
    ioRemainder,        \* remainder of WriteToFile
    ioSize,             \* cmd.file.size of the command being executed
    ioStart,            \* log: the cursors of the files when the command began
    ioReport,           \* what Fatal( ... ) reported
    lastIo,             \* the call made on a file stream in the last step
    \* ---- DiskF1::GenF1 and its jobs
    f1ThreadCount,      \* _context.f1ThreadCount
    plotId,             \* _context.plotId
    f1job,              \* job id -> the locals of the job's lambda
    f1Entries,          \* _entries: slot -> entry
    bucketCounts0,      \* _context.bucketCounts[0]
    f1Released,         \* number of ReleaseThreads() calls of the control thread
    f1BeginWrite,       \* log: the argument of each BeginWriteBuckets call
    f1Submitted,        \* number of bitWriter.Submit() calls
    f1Writes,           \* log: what the jobs wrote through their BitWriter
    f1Produced,         \* log: the (bucket, y, x) entries built by the jobs
    f1Assigned,         \* log: which job took which x in which round
    \* ---- GenFxBucketized and its jobs
    fxThreadCount,      \* threadCount
    fxTable,            \* tableId: the table the stage generates
    fxFileBlockSize,    \* fileBlockSize
    fxBucketIdx,        \* bucketIdx
    fxPairs,            \* pairs: the pairs of the input bucket
    fxTmp,              \* yTmp and metaTmpA: slot -> ( y, meta )
    fxjob,              \* job id -> the fields and the locals of the job
    fxOut,              \* yOut and metaOutA: slot -> ( y, meta )
    fxBucketIdOut,      \* bucketIdOut: slot -> bucket
    totalBucketCounts,  \* bucketCounts of the stage (job.totalBucketCounts)
    fxClassified,       \* log: bucket -> entries ComputeFxForTable put in it
    fxComputed,         \* log: the y' ComputeFxForTable hashed, full width,
                        \* with what it stored of them in yOut and bucketOut
    \* ---- the set-up of the jobs of a stage
    fxSetUp,            \* the locals of GenFxBucketized up to jobs.Run
    fxChunked,          \* the locals of GenFxBucketizedChunked
    \* ---- a write, a seek back and a read of one bucket file
    rt,                 \* the file, the buffers and the locals of the handlers
    \* ---- the region of `blocks` a job of GenF1 fills
    f1Region,           \* the sizes the constructor and the job compute
    \* ---- a WriteBuckets command and the sizes array of its producer
    wb                  \* the array, the command and what the handler read

qvars == << ring, writePosition, pendingCount, committedCount, readPosition,
            cmdReadySignal, cmdConsumedSignal, ppc, ptype, issued,
            committedIds, filled, dpc, commands, cmdCount, ci, executed, fenceSignals >>

iovars == << useDirectIO, filePos, fileLen, ioPc, ioType, ioSizes, ioBucket,
             ioBase, ioSrc,
             ioLeft, ioRemainder, ioSize, ioStart, ioReport, lastIo >>

f1vars == << f1ThreadCount, plotId, f1job, f1Entries, bucketCounts0, f1Released,
             f1BeginWrite, f1Submitted, f1Writes, f1Produced, f1Assigned >>

fxvars == << fxThreadCount, fxTable, fxFileBlockSize, fxBucketIdx, fxPairs,
             fxTmp, fxjob,
             fxOut, fxBucketIdOut, totalBucketCounts, fxClassified, fxComputed >>

heapvars == << heapFree, heapLent, heapApplied, cmdBuffer >>

ctorvars == << ctorPc, ctorFile, _blockSize, _blockBuffer, opened, dispatchRunning >>

suvars == << fxSetUp, fxChunked >>

rtvars == << rt, f1Region, wb >>

vars == << qvars, heapvars, ctorvars, iovars, f1vars, fxvars, suvars, rtvars >>

\* What the actions of one part leave alone: the variables of the others.
notq == << heapvars, ctorvars, iovars, f1vars, fxvars, suvars, rtvars >>

notheap == << ctorvars, iovars, f1vars, fxvars, suvars, rtvars >>

notctor == << qvars, heapvars, iovars, f1vars, fxvars, suvars, rtvars >>

notio == << qvars, heapvars, ctorvars, useDirectIO, f1vars, fxvars, suvars, rtvars >>

notf1 == << qvars, heapvars, ctorvars, iovars, f1ThreadCount, plotId, fxvars,
           suvars, rtvars >>

notfx == << qvars, heapvars, ctorvars, iovars, f1vars, fxThreadCount, fxTable, fxFileBlockSize,
            fxBucketIdx, fxPairs, fxTmp, suvars, rtvars >>

notsu == << qvars, heapvars, ctorvars, iovars, f1vars, fxvars, rtvars >>

notrt == << qvars, heapvars, ctorvars, iovars, f1vars, fxvars, suvars,
           f1Region, wb >>

notregion == << qvars, heapvars, ctorvars, iovars, f1vars, fxvars, suvars,
               rt, wb >>

notwb == << qvars, heapvars, ctorvars, iovars, f1vars, fxvars, suvars,
           rt, f1Region >>

-----------------------------------------------------------------------------
(* Bounds of the model *)

\* Capacity of the command ring (the template argument of _commands).
Capacity == 3

\* Number of commands the producer issues in one run.
MaxCmds == 4

\* Size of the dispatcher's local batch.  The code uses 64; the model uses
\* a batch smaller than the ring so that one commit is split over batches.
CMD_BUF_SIZE == 2

\* Number of bucket files of a file set (BB_DP_BUCKET_COUNT).
BB_DP_BUCKET_COUNT == 2

\* Block size the files report (_blockSize); the code requires at least 2.
BlockSize == 2

\* The table of the model holds 2^TableBits entries, and its x and keystream
\* words are TableBits wide, where the program's are _K = 32 bits wide.
TableBits == 7

\* log2 of _numBuckets, the template argument of DiskF1.
F1LogBuckets == 1

\* Largest f1ThreadCount.
MaxF1Threads == 3

\* The entries of the input bucket of an Fx stage.
MaxFxEntries == 2

\* Largest threadCount of GenFxBucketized.
MaxFxThreads == 2

\* Size of the arena of the work heap, in blocks.
HeapSize == 2

\* Number of buffers the producer asks the heap for in one run.
MaxLends == 2

\* Largest size a command carries: sizes below, at and above one block.
MaxIoSize == BlockSize + 1

\* The largest file the model lets grow: two blocks.
MaxFileSize == 2 * BlockSize

-----------------------------------------------------------------------------
(* Helpers *)

Min(a, b) == IF a < b THEN a ELSE b

Max(a, b) == IF a > b THEN a ELSE b

Range(s) == { s[i] : i \in 1..Len(s) }

CommandTypes == { "WriteFile", "MemoryFence" }

NoCommand == [ id |-> 0, type |-> "None" ]

-----------------------------------------------------------------------------
(* The command ring: SPCQueue::Write, Commit, Dequeue *)

\* _commands.Write( cmd ): a slot is free when fewer than Capacity commands
\* are claimed or committed and not yet dequeued.
QueueHasRoom == pendingCount + committedCount < Capacity

\* The slot Write hands out.
WriteSlot == (writePosition + pendingCount) % Capacity

\* The commands Dequeue copies out: up to max of them, oldest first.
DequeueCount(max) == Min(max, committedCount)

DequeueCopy(n) == [ i \in 1..n |-> ring[(readPosition + i - 1) % Capacity] ]

-----------------------------------------------------------------------------
(* The producer: GetCommandObject and CommitCommands *)

\* ZeroMem( cmd ); cmd->type = type;  on the slot Write returned.
FillCommand(type) ==
    /\ ring' = [ ring EXCEPT ![WriteSlot] = [ id |-> issued + 1, type |-> type ] ]
    /\ pendingCount' = pendingCount + 1
    /\ issued' = issued + 1
    /\ filled' = Append(filled, [ id |-> issued + 1, type |-> type ])

\* GetCommandObject( type ), first pass of the while loop: either Write
\* succeeds and the command is filled, or the producer goes to wait.
GetCommandObject(type) ==
    /\ ppc = "idle"
    /\ issued < MaxCmds
    /\ IF QueueHasRoom
         THEN /\ FillCommand(type)
              /\ UNCHANGED << ppc, ptype >>
         ELSE /\ ppc' = "waiting"
              /\ ptype' = type
              /\ UNCHANGED << ring, pendingCount, issued, filled >>
    /\ UNCHANGED << writePosition, committedCount, readPosition, cmdReadySignal,
                    cmdConsumedSignal, committedIds, dpc, commands, cmdCount,
                    ci, executed, fenceSignals >>
    /\ UNCHANGED notq

\* _cmdConsumedSignal.Wait(): blocks until the signal is set, and resets it.
WaitConsumed ==
    /\ ppc = "waiting"
    /\ cmdConsumedSignal
    /\ cmdConsumedSignal' = FALSE
    /\ ppc' = "retry"
    /\ UNCHANGED << ring, writePosition, pendingCount, committedCount,
                    readPosition, cmdReadySignal, ptype, issued, committedIds, filled,
                    dpc, commands, cmdCount, ci, executed, fenceSignals >>
    /\ UNCHANGED notq

\* The next pass of the while loop of GetCommandObject.
RetryWrite ==
    /\ ppc = "retry"
    /\ IF QueueHasRoom
         THEN /\ FillCommand(ptype)
              /\ ppc' = "idle"
              /\ ptype' = "None"
         ELSE /\ ppc' = "waiting"
              /\ UNCHANGED << ring, pendingCount, issued, filled, ptype >>
    /\ UNCHANGED << writePosition, committedCount, readPosition, cmdReadySignal,
                    cmdConsumedSignal, committedIds, dpc, commands, cmdCount,
                    ci, executed, fenceSignals >>
    /\ UNCHANGED notq

\* CommitCommands, first statement: _commands.Commit() publishes every
\* pending slot.
CommitCommands ==
    /\ ppc = "idle"
    /\ committedCount' = committedCount + pendingCount
    /\ writePosition' = (writePosition + pendingCount) % Capacity
    /\ pendingCount' = 0
    /\ committedIds' = issued
    /\ ppc' = "signal"
    /\ UNCHANGED << ring, readPosition, cmdReadySignal, cmdConsumedSignal,
                    ptype, issued, filled, dpc, commands, cmdCount, ci, executed,
                    fenceSignals >>
    /\ UNCHANGED notq

\* CommitCommands, second statement: _cmdReadySignal.Signal().
SignalReadyForgotten ==
    /\ ppc = "signal"
    /\ ppc' = "idle"
    /\ UNCHANGED << ring, writePosition, pendingCount, committedCount,
                    readPosition, cmdReadySignal, cmdConsumedSignal, ptype, issued,
                    committedIds, filled, dpc, commands, cmdCount, ci, executed,
                    fenceSignals >>
    /\ UNCHANGED notq

SignalReady ==
    /\ ppc = "signal"
    /\ cmdReadySignal' = TRUE
    /\ ppc' = "idle"
    /\ UNCHANGED << ring, writePosition, pendingCount, committedCount,
                    readPosition, cmdConsumedSignal, ptype, issued,
                    committedIds, filled, dpc, commands, cmdCount, ci, executed,
                    fenceSignals >>
    /\ UNCHANGED notq

-----------------------------------------------------------------------------
(* The dispatch thread: CommandMain and ExecuteCommand *)

\* Mutation: the dispatcher leaves the wait without the signal.
WaitReadyUnsignalled ==
    /\ dpc = "wait"
    /\ dpc' = "dequeue"
    /\ UNCHANGED << ring, writePosition, pendingCount, committedCount,
                    readPosition, cmdReadySignal, cmdConsumedSignal, ppc, ptype,
                    issued, committedIds, filled, commands, cmdCount, ci,
                    executed, fenceSignals >>
    /\ UNCHANGED notq

\* _cmdReadySignal.Wait()
WaitReady ==
    /\ dpc = "wait"
    /\ cmdReadySignal
    /\ cmdReadySignal' = FALSE
    /\ dpc' = "dequeue"
    /\ UNCHANGED << ring, writePosition, pendingCount, committedCount,
                    readPosition, cmdConsumedSignal, ppc, ptype, issued,
                    committedIds, filled, commands, cmdCount, ci, executed,
                    fenceSignals >>
    /\ UNCHANGED notq

\* cmdCount = _commands.Dequeue( commands, CMD_BUF_SIZE ), the copy: the
\* batch is copied out of the ring and the read position moves on.  A count
\* of zero ends the while loop.
Dequeue ==
    /\ dpc = "dequeue"
    /\ LET n == DequeueCount(CMD_BUF_SIZE) IN
         /\ cmdCount' = n
         /\ IF n = 0
              THEN /\ dpc' = "wait"
                   /\ UNCHANGED << commands, readPosition >>
              ELSE /\ commands' = DequeueCopy(n)
                   /\ readPosition' = (readPosition + n) % Capacity
                   /\ dpc' = "release"
    /\ UNCHANGED << ring, writePosition, pendingCount, committedCount,
                    cmdReadySignal, cmdConsumedSignal, ppc, ptype, issued,
                    committedIds, filled, ci, executed, fenceSignals >>
    /\ UNCHANGED notq

\* Dequeue, the publication: the copied slots are given back to the producer.
DequeueRelease ==
    /\ dpc = "release"
    /\ committedCount' = committedCount - cmdCount
    /\ dpc' = "consumed"
    /\ UNCHANGED << ring, writePosition, pendingCount, readPosition,
                    cmdReadySignal, cmdConsumedSignal, ppc, ptype, issued,
                    committedIds, filled, commands, cmdCount, ci, executed,
                    fenceSignals >>
    /\ UNCHANGED notq

\* _cmdConsumedSignal.Signal(), then the for loop starts at i = 0.
SignalConsumedForgotten ==
    /\ dpc = "consumed"
    /\ ci' = 1
    /\ dpc' = "exec"
    /\ UNCHANGED << ring, writePosition, pendingCount, committedCount,
                    readPosition, cmdReadySignal, cmdConsumedSignal, ppc, ptype,
                    issued, committedIds, filled, commands, cmdCount, executed,
                    fenceSignals >>
    /\ UNCHANGED notq

SignalConsumed ==
    /\ dpc = "consumed"
    /\ cmdConsumedSignal' = TRUE
    /\ ci' = 1
    /\ dpc' = "exec"
    /\ UNCHANGED << ring, writePosition, pendingCount, committedCount,
                    readPosition, cmdReadySignal, ppc, ptype, issued,
                    committedIds, filled, commands, cmdCount, executed, fenceSignals >>
    /\ UNCHANGED notq

\* The command the for loop runs in its i-th pass (1-based here).
LoopCommandReversed(i) == commands[cmdCount + 1 - i]

LoopCommand(i) == commands[i]

\* The condition of the for loop: i < cmdCount (0-based in the code).
LoopContinuesShort(i) == i < cmdCount

LoopContinues(i) == i <= cmdCount

\* The MemoryFence case of ExecuteCommand: cmd.fence.signal->Signal().
FenceSignalDropped(cmd) == fenceSignals

FenceSignal(cmd) ==
    IF cmd.type = "MemoryFence"
      THEN [ fenceSignals EXCEPT ![cmd.id] = @ + 1 ]
      ELSE fenceSignals

\* ExecuteCommand( commands[i] ) and the loop's i++; when the loop ends the
\* dispatcher calls Dequeue again.
ExecuteCommand ==
    /\ dpc = "exec"
    /\ IF LoopContinues(ci)
         THEN /\ executed' = Append(executed, LoopCommand(ci))
              /\ fenceSignals' = FenceSignal(LoopCommand(ci))
              /\ ci' = ci + 1
              /\ dpc' = "exec"
         ELSE /\ dpc' = "dequeue"
              /\ UNCHANGED << executed, fenceSignals, ci >>
    /\ UNCHANGED << ring, writePosition, pendingCount, committedCount,
                    readPosition, cmdReadySignal, cmdConsumedSignal, ppc, ptype,
                    issued, committedIds, filled, commands, cmdCount >>
    /\ UNCHANGED notq

-----------------------------------------------------------------------------
(* The file streams (FileStream::Write, Read, Seek) *)

IoBuckets == 0..(BB_DP_BUCKET_COUNT - 1)

SeekOrigins == { "Begin", "Current", "End" }

\* The position FileStream::Seek( offset, origin ) asks for.
SeekTarget(b, offset, origin) ==
    CASE origin = "Begin"   -> offset
      [] origin = "Current" -> filePos[b] + offset
      [] origin = "End"     -> fileLen[b] + offset

\* Seek fails on a position before the start of the file.
SeekOk(b, offset, origin) == SeekTarget(b, offset, origin) >= 0

\* The byte counts a successful FileStream::Write( buffer, size ) may return.
WriteResults(size) == 1..size

\* The byte counts a successful FileStream::Read( buffer, size ) may return:
\* no more than the file holds after the cursor.
ReadResults(b, size) == 1..Min(size, fileLen[b] - filePos[b])

\* The codes FileStream::GetError() may report after a failed call (EIO,
\* ENOSPC).
ErrorCodes == { 5, 28 }

\* The stream after n bytes were written at the cursor of bucket b.
Written(b, n) ==
    /\ filePos' = [ filePos EXCEPT ![b] = @ + n ]
    /\ fileLen' = [ fileLen EXCEPT ![b] = Max(@, filePos[b] + n) ]

\* A call on the file stream of bucket b, as the stream sees it.
WriteCall(b, len, src, from) ==
    [ kind |-> "write", bucket |-> b, offset |-> filePos[b], len |-> len,
      src |-> src, from |-> from, copied |-> len, err |-> 0 ]

\* The write of the block buffer: the buffer was zeroed and the `remainder`
\* bytes at src were copied to its start.
BlockCall(b, src, remainder) ==
    [ WriteCall(b, BlockSize, src, "blockBuffer") EXCEPT !.copied = remainder ]

ReadCall(b, len, src) ==
    [ kind |-> "read", bucket |-> b, offset |-> filePos[b], len |-> len,
      src |-> src, from |-> "buffer", copied |-> 0, err |-> 0 ]

SeekCall(b, offset, origin) ==
    [ kind |-> "seek", bucket |-> b, offset |-> SeekTarget(b, offset, origin),
      len |-> 0, src |-> 0, from |-> "none", copied |-> 0, err |-> 0 ]

\* The call failed and the stream keeps the error code err.
Failed(call, err) == [ call EXCEPT !.err = err ]

NoIo == [ kind |-> "none", bucket |-> 0, offset |-> 0, len |-> 0, src |-> 0,
          from |-> "none", copied |-> 0, err |-> 0 ]

-----------------------------------------------------------------------------
(* The command handlers: CmdWriteBuckets, CndWriteFile, CmdReadFile,       *)
(* SeekFile, CmdSeekBucket, WriteToFile, ReadFromFile                      *)

RoundUpToNextBoundaryT(value, boundary) ==
    ((value + boundary - 1) \div boundary) * boundary

CDivT(a, b) == (a + b - 1) \div b

IoSizes == 0..MaxIoSize

IoOffsets == (-MaxFileSize)..MaxFileSize

NoSizes == [ b \in IoBuckets |-> 0 ]

\* The names the constructor gives the file sets.
FileSetNames ==
    [ Y0 |-> "y0", Y1 |-> "y1", META_A_0 |-> "meta_a0", META_A_1 |-> "meta_a1",
      META_B_0 |-> "meta_b0", META_B_1 |-> "meta_b1", X |-> "x" ]

\* cmd.file.fileId, cmd.buckets.fileId, cmd.seek.fileId: the commands
\* followed here address the files of one set.
IoFileId == "Y0"

NoReport == [ name |-> "", bucket |-> -1, err |-> 0 ]

\* A report that always names the first bucket.
FatalReportFirstBucket(bucket, err) ==
    [ name |-> FileSetNames[IoFileId], bucket |-> 0, err |-> err ]

\* The arguments of the message of Fatal( ... ): fileName, bucket, err.
FatalReport(bucket, err) ==
    [ name |-> FileSetNames[IoFileId], bucket |-> bucket, err |-> err ]

\* const int err = file.GetError(); Fatal( ... ) ends the process.
Fatal(bucket, err) ==
    /\ ioPc' = "fatal"
    /\ ioReport' = FatalReport(bucket, err)
    /\ UNCHANGED << filePos, fileLen, ioType, ioSizes, ioBucket, ioBase, ioSrc,
                    ioLeft, ioRemainder, ioSize, ioStart >>

\* WriteToFile that forgets the remainder.
WriteToFileNoRemainder(size, buffer) ==
    /\ ioSrc' = buffer
    /\ ioLeft' = IF useDirectIO THEN (size \div BlockSize) * BlockSize ELSE size
    /\ ioRemainder' = 0
    /\ ioPc' = "write"

\* Entry of WriteToFile( file, size, buffer, ... ).
WriteToFile(size, buffer) ==
    /\ ioSrc' = buffer
    /\ ioLeft' = IF useDirectIO THEN (size \div BlockSize) * BlockSize ELSE size
    /\ ioRemainder' = IF useDirectIO
                        THEN size - (size \div BlockSize) * BlockSize
                        ELSE 0
    /\ ioPc' = "write"

\* Entry of ReadFromFile( file, size, buffer, ... ).
ReadFromFile(size, buffer) ==
    /\ ioSrc' = buffer
    /\ ioLeft' = IF useDirectIO THEN CDivT(size, BlockSize) * BlockSize ELSE size
    /\ ioRemainder' = 0
    /\ ioPc' = "read"

\* case Command::WriteFile: CndWriteFile( cmd )
CndWriteFile(bucket, size) ==
    /\ ioPc = "idle"
    /\ filePos[bucket] + RoundUpToNextBoundaryT(size, BlockSize) <= MaxFileSize
    /\ ioType' = "WriteFile"
    /\ ioBucket' = bucket
    /\ ioSize' = size
    /\ ioStart' = filePos
    /\ WriteToFile(size, 0)
    /\ lastIo' = NoIo
    /\ UNCHANGED << filePos, fileLen, ioSizes, ioBase, ioReport >>
    /\ UNCHANGED notio

\* case Command::ReadFile: CmdReadFile( cmd )
CmdReadFile(bucket, size) ==
    /\ ioPc = "idle"
    /\ ioType' = "ReadFile"
    /\ ioBucket' = bucket
    /\ ioSize' = size
    /\ ioStart' = filePos
    /\ ReadFromFile(size, 0)
    /\ lastIo' = NoIo
    /\ UNCHANGED << filePos, fileLen, ioSizes, ioBase, ioReport >>
    /\ UNCHANGED notio

\* case Command::WriteBuckets: CmdWriteBuckets( cmd ), up to the for loop.
CmdWriteBuckets(sizes) ==
    /\ ioPc = "idle"
    /\ \A b \in IoBuckets : filePos[b] + sizes[b] <= MaxFileSize
    /\ ioType' = "WriteBuckets"
    /\ ioSizes' = sizes
    /\ ioBucket' = 0
    /\ ioBase' = 0
    /\ ioPc' = "bucket"
    /\ ioStart' = filePos
    /\ lastIo' = NoIo
    /\ UNCHANGED << filePos, fileLen, ioSrc, ioLeft, ioRemainder, ioSize, ioReport >>
    /\ UNCHANGED notio

\* The size CmdWriteBuckets passes to WriteToFile for a bucket buffer.
BucketWriteSize(bufferSize) ==
    IF useDirectIO = FALSE THEN bufferSize
    ELSE (bufferSize \div BlockSize) * BlockSize

\* Bucket buffers that follow each other without a gap.
BucketBufferOffsetPacked(bufferSize) == bufferSize

\* The distance from one bucket buffer to the next.
BucketBufferOffset(bufferSize) ==
    IF useDirectIO = FALSE THEN bufferSize
    ELSE RoundUpToNextBoundaryT(bufferSize, BlockSize)

\* ExecuteCommand returns: the dispatcher is ready for the next command.
CommandDone ==
    /\ ioPc' = "idle"
    /\ ioType' = "None"
    /\ ioSizes' = NoSizes
    /\ ioBucket' = 0
    /\ ioBase' = 0
    /\ ioSize' = 0
    /\ ioStart' = [ b \in IoBuckets |-> 0 ]

\* One pass of the for loop of CmdWriteBuckets up to the call of
\* WriteToFile, or the end of the loop.
WriteBucketsLoop ==
    /\ ioPc = "bucket"
    /\ IF ioBucket < BB_DP_BUCKET_COUNT
         THEN /\ WriteToFile(BucketWriteSize(ioSizes[ioBucket]), ioBase)
              /\ UNCHANGED << ioType, ioSizes, ioBucket, ioBase, ioSize, ioStart >>
         ELSE /\ CommandDone
              /\ ioSrc' = 0
              /\ UNCHANGED << ioLeft, ioRemainder >>
    /\ lastIo' = NoIo
    /\ UNCHANGED << filePos, fileLen, ioReport >>
    /\ UNCHANGED notio

\* WriteToFile returns: to the for loop of CmdWriteBuckets, which moves
\* `buffer` to the next bucket buffer, or to ExecuteCommand.
WriteToFileReturns ==
    IF ioType = "WriteBuckets"
      THEN /\ ioPc' = "bucket"
           /\ ioBase' = ioBase + BucketBufferOffset(ioSizes[ioBucket])
           /\ ioBucket' = ioBucket + 1
           /\ UNCHANGED << ioType, ioSizes, ioSize, ioStart >>
      ELSE CommandDone

\* One pass of a while loop of WriteToFile: file.Write( buffer, size ) with
\* its result, or the end of the loop.
WriteLoop ==
    /\ ioPc = "write"
    /\ IF ioLeft > 0
         THEN \/ \E sizeWritten \in WriteResults(ioLeft) :
                    /\ lastIo' = WriteCall(ioBucket, ioLeft, ioSrc, "buffer")
                    /\ Written(ioBucket, sizeWritten)
                    /\ ioLeft' = ioLeft - sizeWritten
                    /\ ioSrc' = ioSrc + sizeWritten
                    /\ UNCHANGED << ioPc, ioType, ioSizes, ioBucket, ioBase,
                                    ioRemainder, ioSize, ioStart, ioReport >>
              \/ \E err \in ErrorCodes :
                    /\ lastIo' = Failed(WriteCall(ioBucket, ioLeft, ioSrc, "buffer"), err)
                    /\ Fatal(ioBucket, err)
         ELSE /\ IF useDirectIO /\ ioRemainder # 0
                   THEN /\ ioPc' = "block"
                        /\ UNCHANGED << ioType, ioSizes, ioBucket, ioBase, ioSrc,
                                        ioRemainder, ioSize, ioStart >>
                   ELSE /\ WriteToFileReturns
                        /\ ioSrc' = 0
                        /\ ioRemainder' = 0
              /\ lastIo' = NoIo
              /\ UNCHANGED << filePos, fileLen, ioLeft, ioReport >>
    /\ UNCHANGED notio

\* if( remainder ): the block buffer is zeroed, takes the remainder and
\* is written once, as one block.
WriteBlock ==
    /\ ioPc = "block"
    /\ \/ \E sizeWritten \in WriteResults(BlockSize) :
             /\ lastIo' = BlockCall(ioBucket, ioSrc, ioRemainder)
             /\ Written(ioBucket, sizeWritten)
             /\ WriteToFileReturns
             /\ ioSrc' = 0
             /\ ioRemainder' = 0
             /\ UNCHANGED << ioLeft, ioReport >>
       \/ \E err \in ErrorCodes :
             /\ lastIo' = Failed(BlockCall(ioBucket, ioSrc, ioRemainder), err)
             /\ Fatal(ioBucket, err)
    /\ UNCHANGED notio

\* One pass of a while loop of ReadFromFile: file.Read( buffer, size ) with
\* its result, or the end of the loop.
ReadLoop ==
    /\ ioPc = "read"
    /\ IF ioLeft > 0
         THEN \/ \E sizeRead \in ReadResults(ioBucket, ioLeft) :
                    /\ lastIo' = ReadCall(ioBucket, ioLeft, ioSrc)
                    /\ filePos' = [ filePos EXCEPT ![ioBucket] = @ + sizeRead ]
                    /\ ioLeft' = ioLeft - sizeRead
                    /\ ioSrc' = ioSrc + sizeRead
                    /\ UNCHANGED << fileLen, ioPc, ioType, ioSizes, ioBucket,
                                    ioBase, ioRemainder, ioSize, ioStart, ioReport >>
              \/ \E err \in ErrorCodes :
                    /\ lastIo' = Failed(ReadCall(ioBucket, ioLeft, ioSrc), err)
                    /\ Fatal(ioBucket, err)
         ELSE /\ CommandDone
              /\ ioSrc' = 0
              /\ lastIo' = NoIo
              /\ UNCHANGED << filePos, fileLen, ioLeft, ioRemainder, ioReport >>
    /\ UNCHANGED notio

\* case Command::SeekFile
CmdSeekFile(bucket, offset, origin) ==
    /\ ioPc = "idle"
    /\ SeekTarget(bucket, offset, origin) <= MaxFileSize
    /\ IF SeekOk(bucket, offset, origin)
         THEN /\ lastIo' = SeekCall(bucket, offset, origin)
              /\ filePos' = [ filePos EXCEPT ![bucket] =
                                SeekTarget(bucket, offset, origin) ]
              /\ UNCHANGED << fileLen, ioPc, ioType, ioSizes, ioBucket, ioBase,
                              ioSrc, ioLeft, ioRemainder, ioSize, ioStart,
                              ioReport >>
         ELSE \E err \in ErrorCodes :
                /\ lastIo' = Failed(SeekCall(bucket, offset, origin), err)
                /\ Fatal(bucket, err)
    /\ UNCHANGED notio

\* case Command::SeekBucket: CmdSeekBucket( cmd ) seeks every file of the
\* set, in bucket order, and is fatal at the first file that fails.
SeekBucketFails(offset, origin) ==
    { b \in IoBuckets : ~SeekOk(b, offset, origin) }

SeekBucketLast(offset, origin) ==
    IF SeekBucketFails(offset, origin) = {} THEN BB_DP_BUCKET_COUNT - 1
    ELSE CHOOSE b \in SeekBucketFails(offset, origin) :
             \A c \in SeekBucketFails(offset, origin) : b <= c

CmdSeekBucket(offset, origin) ==
    /\ ioPc = "idle"
    /\ \A b \in IoBuckets : SeekTarget(b, offset, origin) <= MaxFileSize
    /\ filePos' = [ b \in IoBuckets |->
                      IF b <= SeekBucketLast(offset, origin) /\ SeekOk(b, offset, origin)
                        THEN SeekTarget(b, offset, origin)
                        ELSE filePos[b] ]
    /\ IF SeekBucketFails(offset, origin) = {}
         THEN /\ lastIo' = SeekCall(SeekBucketLast(offset, origin), offset, origin)
              /\ UNCHANGED << ioPc, ioReport >>
         ELSE \E err \in ErrorCodes :
                /\ lastIo' = Failed(SeekCall(SeekBucketLast(offset, origin),
                                             offset, origin), err)
                /\ ioPc' = "fatal"
                /\ ioReport' = FatalReport(SeekBucketLast(offset, origin), err)
    /\ UNCHANGED << fileLen, ioType, ioSizes, ioBucket, ioBase, ioSrc, ioLeft,
                    ioRemainder, ioSize, ioStart >>
    /\ UNCHANGED notio

-----------------------------------------------------------------------------
(* The specification of the command handlers: the dispatcher executes one  *)
(* command after the other, each to its end.                               *)

IoStart ==
    /\ filePos = [ b \in IoBuckets |-> 0 ]
    /\ fileLen = [ b \in IoBuckets |-> 0 ]
    /\ ioPc = "idle"
    /\ ioType = "None"
    /\ ioSizes = NoSizes
    /\ ioBucket = 0
    /\ ioBase = 0
    /\ ioSrc = 0
    /\ ioLeft = 0
    /\ ioRemainder = 0
    /\ ioSize = 0
    /\ ioStart = [ b \in IoBuckets |-> 0 ]
    /\ ioReport = NoReport
    /\ lastIo = NoIo

\* The queue is constructed with or without direct I/O.
IoInit == useDirectIO \in BOOLEAN /\ IoStart

\* The files as the other specifications see them: untouched.
IoIdle == useDirectIO = FALSE /\ IoStart

-----------------------------------------------------------------------------
(* DiskF1: the constants of the F1 generator *)

\* The plotter is built for k = 32: a keystream word is one uint32.
_K == 32

\* A ChaCha8 keystream block: 512 bits, 64 bytes.
kF1BlockSizeBits == 512

kF1BlockSize == 64

kExtraBits == 6

_numBuckets == 2 ^ F1LogBuckets

F1Buckets == 0..(_numBuckets - 1)

\* 1 << _k, at the scale of the model.
F1TableEntryCount == 2 ^ TableBits

_entriesPerBucket == CDivT(F1TableEntryCount, _numBuckets)

entriesPerBlock == kF1BlockSizeBits \div _K

_entriesPerThread(threadCount) == CDivT(_entriesPerBucket, threadCount)

blocksPerThread(threadCount) ==
    CDivT(_entriesPerThread(threadCount), entriesPerBlock)

entryAllocCount(threadCount) ==
    blocksPerThread(threadCount) * entriesPerBlock * threadCount

kMinusKExtraBits == TableBits - kExtraBits

bucketBitShift == TableBits - F1LogBuckets

\* Info::YBitSize of table 1, and the size of an entry: y + x.
F1YBitSize == TableBits + kExtraBits

entrySizeBits == F1YBitSize + TableBits

PlotIds == { 0, 1 }

\* chacha8_get_keystream: Swap32 of word `word` of the keystream of the key
\* made from the plot id. The cipher is a fixed function of key and counter;
\* the model takes a fixed mixing function in its place.
Keystream(id, word) ==
    (word * 11 + (word \div entriesPerBlock) * 5 + id * 3 + 1) % (2 ^ TableBits)

\* (uint32): a counter as wide as an x, which 2^k entries wrap to zero.
F1UInt32(v) == v % (2 ^ TableBits)

-----------------------------------------------------------------------------
(* DiskF1::GenF1: what one job computes in one round *)

F1Jobs == 0..(f1ThreadCount - 1)

IsLastThread(threadCount, id) == id = threadCount - 1

\* Every job taken for the control thread.
IsControlThreadEveryJob(id) == TRUE

IsControlThread(id) == id = 0

\* const int64 bucketEntryCount = std::min( _entriesPerBucket, tableEntryCount )
BucketEntryCount(tableEntryCount) == Min(_entriesPerBucket, tableEntryCount)

\* uint64 x = nextX + (uint64)entriesPerThread * id
F1ThreadX(threadCount, id, nextX, bucketEntryCount) ==
    nextX + (bucketEntryCount \div threadCount) * id

\* Mutation: the last job takes the same share as the others.
F1ThreadEntriesEven(threadCount, id, bucketEntryCount) ==
    bucketEntryCount \div threadCount

\* The entries of the job: the last one takes what the division leaves.
F1ThreadEntries(threadCount, id, bucketEntryCount) ==
    IF IsLastThread(threadCount, id)
      THEN bucketEntryCount
             - (bucketEntryCount \div threadCount) * (threadCount - 1)
      ELSE bucketEntryCount \div threadCount

\* const uint64 chachaBlock = x / kF1BlockSize
ChachaBlock(x) == x \div kF1BlockSize

\* const uint64 blockCount = CDivT( entriesPerThread, entriesPerBlock )
BlockCount(entriesPerThread) == CDivT(entriesPerThread, entriesPerBlock)

\* The words chacha8_get_keystream( &chacha, chachaBlock, blockCount, blocks )
\* leaves in `blocks`, read through Swap32.
KeystreamBlocks(id, chachaBlock, blockCount) ==
    [ i \in 0..(blockCount * entriesPerBlock - 1) |->
        Keystream(id, chachaBlock * entriesPerBlock + i) ]

\* Swap32( blocks[i] ) >> bucketBitShift
F1BucketOf(y) == y \div (2 ^ bucketBitShift)

\* counts[Swap32( blocks[i] ) >> bucketBitShift] ++, for every entry
F1Counts(blocks, entriesPerThread) ==
    [ b \in F1Buckets |->
        Cardinality({ i \in 0..(entriesPerThread - 1) : F1BucketOf(blocks[i]) = b }) ]

\* y = ( ( y << kExtraBits ) | ( xi >> kMinusKExtraBits ) ) & yMask
F1Y(y, xi) ==
    (y * (2 ^ kExtraBits) + xi \div (2 ^ kMinusKExtraBits)) % (2 ^ F1YBitSize)

\* The bits of a uint64 of `entries`: twice the bits of an x, as 64 is twice
\* 32.
F1WordBits == 2 * TableBits

\* ( xi << yBits ) | y, in a uint64: y is below 1 << yBits, and the bits
\* shifted past the top of the word are gone.
F1Pack(xi, y) == (xi * (2 ^ F1YBitSize) + y) % (2 ^ F1WordBits)

\* entries[dst] = ( xi << yBits ) | y: the word stored, and with it the x
\* and the y it was made from.
F1Entry(y, xi) ==
    [ x |-> xi, y |-> F1Y(y, xi), word |-> F1Pack(xi, F1Y(y, xi)) ]

NoEntry == [ x |-> -1, y |-> -1, word |-> -1 ]

\* The loop that moves the entries of the job into `entries`:
\* dst = --pfxSum[y >> bucketBitShift], entries[dst] = ...
RECURSIVE F1Distribute(_, _, _, _)
F1Distribute(job, i, pfxSum, entries) ==
    IF i >= job.entriesPerThread
      THEN [ pfxSum |-> pfxSum, entries |-> entries ]
      ELSE LET y   == job.blocks[i]
               dst == pfxSum[F1BucketOf(y)] - 1
           IN  F1Distribute(job, i + 1,
                            [ pfxSum EXCEPT ![F1BucketOf(y)] = dst ],
                            [ entries EXCEPT ![dst] = F1Entry(y, job.x + i) ])

\* The (bucket, y, x) entries the job builds in that loop.
F1JobEntries(job) ==
    { [ bucket |-> F1BucketOf(job.blocks[i]),
        y      |-> F1Y(job.blocks[i], job.x + i),
        x      |-> job.x + i ] : i \in 0..(job.entriesPerThread - 1) }

SumUpTo(f, n) == LET RECURSIVE S(_)
                     S(i) == IF i < 0 THEN 0 ELSE f[i] + S(i - 1)
                 IN  S(n)

\* AnonPrefixSumJob::CalculatePrefixSum( _numBuckets, counts, pfxSum,
\* totalCounts ): the totals over all jobs, and for this job the end of its
\* window in every bucket.
F1TotalCounts ==
    [ b \in F1Buckets |-> SumUpTo([ t \in F1Jobs |-> f1job[t].counts[b] ],
                                  f1ThreadCount - 1) ]

F1PrefixSum(id) ==
    [ b \in F1Buckets |->
        SumUpTo(F1TotalCounts, b)
          - SumUpTo([ t \in F1Jobs |-> IF t > id THEN f1job[t].counts[b] ELSE 0 ],
                    f1ThreadCount - 1) ]

\* The entry the bit-compress loop reads at entries[index].
F1EntryAt(index) ==
    IF index \in DOMAIN f1Entries THEN f1Entries[index] ELSE NoEntry

-----------------------------------------------------------------------------
(* DiskF1::GenF1: the steps of a job *)


\* Lines 89-110: the x range of the round, the keystream, the counts.
F1Generate(id) ==
    /\ f1job[id].pc = "generate"
    /\ LET job == f1job[id]
           bucketEntryCount == BucketEntryCount(job.tableEntryCount)
           x == F1ThreadX(f1ThreadCount, id, job.nextX, bucketEntryCount)
           entriesPerThread ==
               F1ThreadEntries(f1ThreadCount, id, bucketEntryCount)
           chachaBlock == ChachaBlock(x)
           blockCount == BlockCount(entriesPerThread)
           blocks == KeystreamBlocks(plotId, chachaBlock, blockCount)
       IN  /\ f1job' = [ f1job EXCEPT ![id] =
                 [ job EXCEPT !.pc = "prefixSum",
                              !.x = x,
                              !.entriesPerThread = entriesPerThread,
                              !.chachaBlock = chachaBlock,
                              !.blockCount = blockCount,
                              !.blocks = blocks,
                              !.counts = F1Counts(blocks, entriesPerThread) ] ]
           /\ f1Assigned' = f1Assigned \cup
                 { [ x |-> x + i, round |-> job.bucket, job |-> id ] :
                     i \in 0..(entriesPerThread - 1) }
    /\ UNCHANGED << f1Entries, bucketCounts0, f1Released, f1BeginWrite,
                    f1Submitted, f1Writes, f1Produced >>
    /\ UNCHANGED notf1

\* Line 112: self->CalculatePrefixSum( ... ), once every job has counted.
F1CalculatePrefixSum(id) ==
    /\ f1job[id].pc = "prefixSum"
    /\ \A t \in F1Jobs : /\ f1job[t].bucket = f1job[id].bucket
                         /\ f1job[t].pc # "generate"
    /\ f1job' = [ f1job EXCEPT ![id] =
          [ @ EXCEPT !.pc = "totals",
                     !.pfxSum = F1PrefixSum(id),
                     !.totalCounts = F1TotalCounts ] ]
    /\ UNCHANGED << f1Entries, bucketCounts0, f1Released, f1BeginWrite,
                    f1Submitted, f1Writes, f1Produced, f1Assigned >>
    /\ UNCHANGED notf1

\* Lines 114-127: the control thread adds the totals of the round to
\* bucketCounts[0], begins the bucket write and releases the others.
F1ControlThread(id) ==
    /\ f1job[id].pc = "totals"
    /\ IsControlThread(id)
    /\ bucketCounts0' =
          [ i \in F1Buckets |->
              F1UInt32(bucketCounts0[i] + F1UInt32(f1job[id].totalCounts[i])) ]
    /\ f1BeginWrite' = Append(f1BeginWrite,
          [ i \in F1Buckets |-> f1job[id].totalCounts[i] * entrySizeBits ])
    /\ f1Released' = f1Released + 1
    /\ f1job' = [ f1job EXCEPT ![id] =
          [ @ EXCEPT !.pc = "distribute",
                     !.totalCounts = [ i \in F1Buckets |->
                                         @[i] * entrySizeBits ] ] ]
    /\ UNCHANGED << f1Entries, f1Submitted, f1Writes, f1Produced, f1Assigned >>
    /\ UNCHANGED notf1

\* Line 130: self->WaitForRelease()
F1WaitForRelease(id) ==
    /\ f1job[id].pc = "totals"
    /\ ~IsControlThread(id)
    /\ f1Released > f1job[id].bucket
    /\ f1job' = [ f1job EXCEPT ![id].pc = "distribute" ]
    /\ UNCHANGED << f1Entries, bucketCounts0, f1Released, f1BeginWrite,
                    f1Submitted, f1Writes, f1Produced, f1Assigned >>
    /\ UNCHANGED notf1

\* Lines 136-146: the entries of the job go to their windows of `entries`.
F1DistributeEntries(id) ==
    /\ f1job[id].pc = "distribute"
    /\ LET done == F1Distribute(f1job[id], 0, f1job[id].pfxSum, f1Entries)
       IN  /\ f1Entries' = done.entries
           /\ f1job' = [ f1job EXCEPT ![id] =
                 [ @ EXCEPT !.pc = "compress",
                            !.pfxSum = done.pfxSum,
                            !.i = 0 ] ]
    /\ f1Produced' = f1Produced \cup F1JobEntries(f1job[id])
    /\ UNCHANGED << bucketCounts0, f1Released, f1BeginWrite, f1Submitted,
                    f1Writes, f1Assigned >>
    /\ UNCHANGED notf1

\* Lines 150-163: the writer of the pass, and its first two entries.
F1CompressFirst(id) ==
    /\ f1job[id].pc = "compress"
    /\ f1job[id].i < _numBuckets
    /\ LET job == f1job[id]
           offset == job.pfxSum[job.i]
       IN  f1Writes' = f1Writes \cup
              { [ job |-> id, round |-> job.bucket, i |-> job.i,
                  bucket |-> job.bucket, bitOffset |-> offset * 8,
                  count |-> job.counts[job.i],
                  entries |-> << F1EntryAt(offset), F1EntryAt(offset + 1) >> ] }
    /\ f1job' = [ f1job EXCEPT ![id].pc = "compressSync" ]
    /\ UNCHANGED << f1Entries, bucketCounts0, f1Released, f1BeginWrite,
                    f1Submitted, f1Produced, f1Assigned >>
    /\ UNCHANGED notf1

\* The record of f1Writes the job is writing.
F1Writing(id) ==
    CHOOSE w \in f1Writes : /\ w.job = id
                            /\ w.round = f1job[id].bucket
                            /\ w.i = f1job[id].i

\* Lines 165-171: self->SyncThreads(), then the rest of the entries of the
\* window.
F1CompressRest(id) ==
    /\ f1job[id].pc = "compressSync"
    /\ \A t \in F1Jobs :
          /\ f1job[t].bucket = f1job[id].bucket
          /\ \/ f1job[t].pc = "sync"
             \/ /\ f1job[t].pc \in { "compress", "compressSync" }
                /\ \/ f1job[t].i > f1job[id].i
                   \/ f1job[t].i = f1job[id].i /\ f1job[t].pc = "compressSync"
    /\ LET job == f1job[id]
           offset == job.pfxSum[job.i]
           w == F1Writing(id)
       IN  f1Writes' = (f1Writes \ { w }) \cup
              { [ w EXCEPT !.entries =
                    @ \o [ j \in 1..(job.counts[job.i] - 2) |->
                             F1EntryAt(offset + 1 + j) ] ] }
    /\ f1job' = [ f1job EXCEPT ![id] =
          [ @ EXCEPT !.i = @ + 1,
                     !.pc = IF f1job[id].i + 1 < _numBuckets
                              THEN "compress" ELSE "sync" ] ]
    /\ UNCHANGED << f1Entries, bucketCounts0, f1Released, f1BeginWrite,
                    f1Submitted, f1Produced, f1Assigned >>
    /\ UNCHANGED notf1

\* Lines 174-185: self->SyncThreads(); the control thread submits; the job
\* goes to the next bucket, and after the last one the control thread
\* submits the left-overs: leftOvers counts the calls of SubmitLeftOvers
\* the job has made.
F1NextBucket(id) ==
    /\ f1job[id].pc = "sync"
    /\ \A t \in F1Jobs :
          \/ f1job[t].bucket > f1job[id].bucket
          \/ f1job[t].bucket = f1job[id].bucket /\ f1job[t].pc = "sync"
          \/ f1job[t].pc = "done"
    /\ f1Submitted' = IF IsControlThread(id) THEN f1Submitted + 1
                      ELSE f1Submitted
    /\ LET job == f1job[id]
           bucketEntryCount == BucketEntryCount(job.tableEntryCount)
       IN  f1job' = [ f1job EXCEPT ![id] =
              [ job EXCEPT !.bucket = job.bucket + 1,
                           !.tableEntryCount = @ - bucketEntryCount,
                           !.nextX = @ + bucketEntryCount,
                           !.leftOvers =
                               IF /\ IsControlThread(id)
                                  /\ job.bucket + 1 >= _numBuckets
                                 THEN @ + 1 ELSE @,
                           !.pc = IF job.bucket + 1 < _numBuckets
                                    THEN "generate" ELSE "done" ] ]
    /\ UNCHANGED << f1Entries, bucketCounts0, f1Released, f1BeginWrite,
                    f1Writes, f1Produced, f1Assigned >>
    /\ UNCHANGED notf1

-----------------------------------------------------------------------------
(* The specification of GenF1: the jobs of one run, in any interleaving *)

\* A job at the start of the lambda of GenF1.
F1JobStart ==
    [ pc |-> "generate", bucket |-> 0, nextX |-> 0,
      tableEntryCount |-> F1TableEntryCount, x |-> 0,
      entriesPerThread |-> 0, chachaBlock |-> 0, blockCount |-> 0,
      blocks |-> << >>,
      counts |-> [ b \in F1Buckets |-> 0 ],
      pfxSum |-> [ b \in F1Buckets |-> 0 ],
      totalCounts |-> [ b \in F1Buckets |-> 0 ], i |-> 0,
      leftOvers |-> 0 ]

\* What GenF1 has not written yet: the counts of the context and the logs.
F1Nothing ==
    /\ bucketCounts0 = [ b \in F1Buckets |-> 0 ]
    /\ f1Released = 0
    /\ f1BeginWrite = << >>
    /\ f1Submitted = 0
    /\ f1Writes = {}
    /\ f1Produced = {}
    /\ f1Assigned = {}

F1Start ==
    /\ f1job = [ id \in F1Jobs |-> F1JobStart ]
    /\ f1Entries = [ e \in 0..(entryAllocCount(f1ThreadCount) - 1) |-> NoEntry ]
    /\ F1Nothing

F1Init ==
    /\ f1ThreadCount \in 1..MaxF1Threads
    /\ plotId \in PlotIds
    /\ F1Start

\* GenF1 as the other specifications see it: not run.
F1Idle ==
    /\ f1ThreadCount = 1
    /\ plotId = 0
    /\ f1job = [ id \in F1Jobs |-> [ F1JobStart EXCEPT !.pc = "idle" ] ]
    /\ f1Entries = [ e \in 0..(entryAllocCount(f1ThreadCount) - 1) |-> NoEntry ]
    /\ F1Nothing

F1Done == \A id \in F1Jobs : f1job[id].pc = "done"

\* Neither GenF1 nor a stage of GenFxBucketized was called.
NothingCalled ==
    /\ \A id \in DOMAIN f1job : f1job[id].pc = "idle"
    /\ \A id \in DOMAIN fxjob : fxjob[id].pc = "idle"

\* DiskF1 constructed and GenF1 called: the context it is given, the jobs
\* at the start of the lambda.
GenF1 ==
    /\ NothingCalled
    /\ f1ThreadCount' \in 1..MaxF1Threads
    /\ plotId' \in PlotIds
    /\ f1job' = [ id \in 0..(f1ThreadCount' - 1) |-> F1JobStart ]
    /\ f1Entries' = [ e \in 0..(entryAllocCount(f1ThreadCount') - 1) |-> NoEntry ]
    /\ UNCHANGED << bucketCounts0, f1Released, f1BeginWrite, f1Submitted,
                    f1Writes, f1Produced, f1Assigned >>
    /\ UNCHANGED << qvars, heapvars, ctorvars, iovars, fxvars, suvars, rtvars >>

-----------------------------------------------------------------------------
(* FxGenBucketized: the constants and the inputs of a stage *)

FxBuckets == 0..(BB_DP_BUCKET_COUNT - 1)

\* sizeof( uint32 ), and the block size of a file set opened for direct I/O.
FxEntrySize == 4

FxFileBlockSize == 2 * FxEntrySize

\* The bits of a y' that yOut keeps: (uint32)fx.
FxYOutBits == 2

\* The length of the input streams yIn and metaInA, and of the output
\* buffers: the entries and the padding of every bucket.
FxInputLen == MaxFxEntries + 1

FxOutLen == MaxFxEntries + BB_DP_BUCKET_COUNT * (FxFileBlockSize \div FxEntrySize)

\* The input buckets the model runs a stage on.
FxInputBuckets == { BB_DP_BUCKET_COUNT - 1 }

\* yIn and metaInA of the input bucket: a sorted y stream and its meta.
FxYIn(j) == j

FxMetaInA(j) == j + 1

\* A pair: the position of its left entry, and how far right of it the
\* right entry is.
FxPairDomain == { [ left |-> l, right |-> 1 ] : l \in 0..(FxInputLen - 2) }

\* The pairs of the input bucket, sorted by their left entry.
FxInputs ==
    { p \in [ 1..MaxFxEntries -> FxPairDomain ] :
        \A i \in 1..(MaxFxEntries - 1) : p[i].left <= p[i + 1].left }

\* What the buffers yTmp and metaTmpA hold when the stage starts: nothing
\* the stage wrote.
FxStaleBuffers ==
    { [ j \in 0..(MaxFxEntries - 1) |-> [ y |-> j % (2 ^ FxYOutBits),
                                         meta |-> << j, j >> ] ] }

\* The values a field or a buffer nobody set may hold.
FxGarbage == { 0, 1 }

RECURSIVE BitOr(_, _)
BitOr(a, b) ==
    IF a = 0 THEN b
    ELSE IF b = 0 THEN a
    ELSE (IF a % 2 = 1 \/ b % 2 = 1 THEN 1 ELSE 0)
           + 2 * BitOr(a \div 2, b \div 2)

\* blake3 of ( y, l0, r0 ), reduced to the bits of a y' and its bucket: the
\* model takes a fixed mixing function in place of the hash.
FxHash(y, l0, r0) ==
    (y + l0 * 3 + r0 * 2) % (2 ^ FxYOutBits * BB_DP_BUCKET_COUNT)

\* The tables of the model: table 2, whose y' are k + kExtraBits wide and go
\* with a meta made of the metas of the pair; table 6, whose meta is made of
\* the hash; and table 7, whose y' are k wide and go without a meta.
FxTables == { "Table2", "Table6", "Table7" }

\* log2 of the bucket count: the bits of a bucket id. At the scale of the
\* model they are also the extra bits of a y': 38 - 32 = 6 = log2( 64 ).
FxBucketBits == CHOOSE n \in 0..BB_DP_BUCKET_COUNT : 2 ^ n = BB_DP_BUCKET_COUNT

\* shiftBits: metaKMultiplierOut == 0 ? 0 : kExtraBits
FxShiftBits(table) == IF table = "Table7" THEN 0 ELSE FxBucketBits

\* The bits of a full y': k + shiftBits, with the k of the model.
FxYSize(table) == FxYOutBits + FxShiftBits(table)

\* uint64 fx = Swap64( *output ) >> yShift: the leading k + shiftBits bits
\* of the hash.
FxShifted(table, hash) == hash \div (2 ^ (FxBucketBits - FxShiftBits(table)))

\* Mutation: the bucket id is taken from the low bits of y'.
FxBucketOutLowBits(table, fx) == fx % BB_DP_BUCKET_COUNT

\* bucketOut[i]: (byte)( fx >> 32 ), and for table 7
\* (byte)( ( fx >> 26 ) & 0b111111 ).
FxBucketOut(table, fx) ==
    IF table # "Table7"
      THEN (fx \div (2 ^ FxYOutBits)) % 256
      ELSE (fx \div (2 ^ (FxYOutBits - FxBucketBits))) % BB_DP_BUCKET_COUNT

\* The second word of the hash, output[1], of which the meta of table 6
\* takes its low bits: as FxHash, a fixed mixing function.
FxHashNext(y, l0, r0) ==
    (y * 2 + l0 + r0 * 3 + 1) % (2 ^ FxYOutBits * BB_DP_BUCKET_COUNT)

\* The meta of the output: metaOutA[i] = l0 << 32 | r0 for table 2, and
\* h0 << ySize | h1 >> 26 for table 6.
FxMetaOut(table, y, l0, r0) ==
    IF table = "Table6"
      THEN << FxHash(y, l0, r0), FxHashNext(y, l0, r0) >>
      ELSE << l0, r0 >>

\* The index at which the meta of pair i is stored: metaOutA[i], and for
\* table 6, metaKMultiplierOut == 2 && metaKMultiplierIn == 3, metaOutA[0].
FxMetaOutIndex(table, i) == IF table = "Table6" THEN 0 ELSE i

\* ComputeFxForTable, one pair: the full y', y' as yOut keeps it, the
\* bucket of y', and for table 2 the meta; with them yIn[left] and the y the
\* hash is fed, const uint64 y = bucket | yIn[left].
ComputeFxForTable(table, bucket, pair) ==
    LET left  == pair.left
        right == left + pair.right
        y     == BitOr(bucket, FxYIn(left))
        l0    == FxMetaInA(left)
        r0    == FxMetaInA(right)
        fx    == FxShifted(table, FxHash(y, l0, r0))
    IN  [ fx     |-> fx,
          y      |-> fx % (2 ^ FxYOutBits),
          bucket |-> FxBucketOut(table, fx),
          meta   |-> FxMetaOut(table, y, l0, r0),
          yIn    |-> FxYIn(left),
          input  |-> y ]

ComputeFx(bucket, pair) == ComputeFxForTable(fxTable, bucket, pair)

-----------------------------------------------------------------------------
(* GenFxBucketized: the jobs it sets up *)

FxJobs == 0..(fxThreadCount - 1)

\* job.entryCount: entriesPerThread, and one of the trailing entries for the
\* first jobs.
FxJobEntryCount(entryCount, threadCount, i) ==
    entryCount \div threadCount
      + (IF i < entryCount - (entryCount \div threadCount) * threadCount
           THEN 1 ELSE 0)

\* Where pairs and yTmp of job i start: behind the entries of the jobs
\* before it.
FxJobOffset(entryCount, threadCount, i) ==
    SumUpTo([ t \in 0..(threadCount - 1) |->
                FxJobEntryCount(entryCount, threadCount, t) ], i - 1)

\* The job as GenFxBucketized leaves it: chunkCount, entriesPerChunk and
\* trailingChunkEntries are not set.
FxJobSetUp(i, chunkCount, trailingChunkEntries) ==
    [ pc |-> "run",
      entryCount |-> FxJobEntryCount(MaxFxEntries, fxThreadCount, i),
      pairs |-> FxJobOffset(MaxFxEntries, fxThreadCount, i),
      yTmp |-> FxJobOffset(MaxFxEntries, fxThreadCount, i),
      chunkCount |-> chunkCount,
      trailingChunkEntries |-> trailingChunkEntries,
      chunk |-> 0,
      i |-> 0,
      syncs |-> 0,
      counts |-> [ b \in FxBuckets |-> 0 ],
      countsLive |-> FALSE,
      pfxSum |-> [ b \in FxBuckets |-> 0 ],
      entryPadding |-> [ b \in FxBuckets |-> 0 ],
      bucketCounts |-> [ b \in FxBuckets |-> 0 ] ]

-----------------------------------------------------------------------------
(* FxBucketJob::RunForTable: the steps of a job *)

FxIsControlThread(id) == id = 0

FxSetJob(id, job) == fxjob' = [ fxjob EXCEPT ![id] = job ]

\* Lines 376-414: the locals, the chunk count with the trailing chunk, and
\* the test of the chunk loop.
FxRun(id) ==
    /\ fxjob[id].pc = "run"
    /\ LET job == fxjob[id]
           chunkCount == job.chunkCount
                           + (IF job.trailingChunkEntries # 0 THEN 1 ELSE 0)
       IN  FxSetJob(id, [ job EXCEPT !.chunkCount = chunkCount,
                                     !.pc = IF 0 < chunkCount THEN "compute"
                                            ELSE "done" ])
    /\ UNCHANGED << fxOut, fxBucketIdOut, totalBucketCounts, fxClassified, fxComputed >>
    /\ UNCHANGED notfx

\* The pairs a job may find at pairs.left[i], pairs.right[i]: the pair of
\* the input, or past the end of the input anything.
FxPairsAt(index) ==
    IF index < MaxFxEntries THEN { fxPairs[index + 1] } ELSE FxPairDomain

\* A loop over the entries of the job: after entry i the next entry, or
\* after the last one what follows the loop.
FxLoop(job, after) ==
    IF job.i + 1 < job.entryCount THEN [ job EXCEPT !.i = @ + 1 ] ELSE after

\* The job at the start of DistributeIntoBuckets: memset( counts, 0, ... ).
FxCounting(job) ==
    [ job EXCEPT !.pc = "count",
                 !.i = 0,
                 !.counts = [ b \in FxBuckets |-> 0 ],
                 !.countsLive = TRUE ]

\* Lines 431-434, one pass of the loop of ComputeFxForTable: yOut[i],
\* bucketOut[i] and metaOutA[i] of the buffers all jobs share.
FxCompute(id) ==
    /\ fxjob[id].pc = "compute"
    /\ LET job == fxjob[id]
       IN  IF job.i < job.entryCount
             THEN \E pair \in FxPairsAt(job.pairs + job.i) :
                    LET fx == ComputeFx(fxBucketIdx, pair)
                    IN  /\ fxOut' = [ d \in DOMAIN fxOut |->
                              [ y    |-> IF d = job.i THEN fx.y ELSE fxOut[d].y,
                                meta |-> IF /\ fxTable # "Table7"
                                            /\ d = FxMetaOutIndex(fxTable, job.i)
                                           THEN fx.meta ELSE fxOut[d].meta ] ]
                        /\ fxBucketIdOut' =
                              [ fxBucketIdOut EXCEPT ![job.i] = fx.bucket ]
                        /\ fxClassified' =
                              [ fxClassified EXCEPT ![fx.bucket] = @ + 1 ]
                        /\ fxComputed' = fxComputed \cup
                              { [ fx |-> fx.fx, y |-> fx.y, bucket |-> fx.bucket,
                                  yIn |-> fx.yIn, input |-> fx.input ] }
                        /\ FxSetJob(id, FxLoop(job, FxCounting(job)))
             ELSE /\ FxSetJob(id, FxCounting(job))
                  /\ UNCHANGED << fxOut, fxBucketIdOut, fxClassified, fxComputed >>
    /\ UNCHANGED totalBucketCounts
    /\ UNCHANGED notfx

\* Lines 646-651, one pass of the loop: counts[*ptr] ++; after the loop
\* CalculatePrefixSum publishes the counts and goes to the barrier.
FxCount(id) ==
    /\ fxjob[id].pc = "count"
    /\ LET job == fxjob[id]
       IN  IF job.i < job.entryCount
             THEN FxSetJob(id,
                     FxLoop([ job EXCEPT !.counts[fxBucketIdOut[job.i]] = @ + 1 ],
                            [ job EXCEPT !.counts[fxBucketIdOut[job.i]] = @ + 1,
                                         !.pc = "sync", !.i = 0 ]))
             ELSE FxSetJob(id, [ job EXCEPT !.pc = "sync", !.i = 0 ])
    /\ UNCHANGED << fxOut, fxBucketIdOut, totalBucketCounts, fxClassified, fxComputed >>
    /\ UNCHANGED notfx

\* Line 688: this->SyncThreads(), which lets the job go when every job has
\* come to the same barrier.
FxSyncThreads(id) ==
    /\ fxjob[id].pc = "sync"
    /\ \A t \in FxJobs :
          \/ fxjob[t].syncs > fxjob[id].syncs
          \/ fxjob[t].syncs = fxjob[id].syncs /\ fxjob[t].pc = "sync"
    /\ FxSetJob(id, [ fxjob[id] EXCEPT !.pc = "sum", !.syncs = @ + 1 ])
    /\ UNCHANGED << fxOut, fxBucketIdOut, totalBucketCounts, fxClassified, fxComputed >>
    /\ UNCHANGED notfx

\* What a job may read through GetJob( t ).counts: the counts of the jobs
\* that are in DistributeIntoBuckets, and anything where the array of a job
\* is gone with the call that held it.
FxCountsRead ==
    { c \in [ FxJobs -> [ FxBuckets -> 0..MaxFxEntries ] ] :
        /\ \A t \in FxJobs : ~fxjob[t].countsLive =>
               c[t] \in [ FxBuckets -> FxGarbage ] \cup { fxjob[t].counts }
        /\ \A t \in FxJobs : fxjob[t].countsLive => c[t] = fxjob[t].counts }

FxRoundUp(count) ==
    RoundUpToNextBoundaryT(count * FxEntrySize, fxFileBlockSize) \div FxEntrySize

\* pfxSum[i] += pfxSum[i-1], for i from 1
FxRunningSum(sums) == [ b \in FxBuckets |-> SumUpTo(sums, b) ]

\* Lines 691-749: the sum of the counts of all jobs, which the control
\* thread keeps as bucketCounts, the padding of direct I/O, and the prefix
\* sum.
FxCalculatePrefixSum(id) ==
    /\ fxjob[id].pc = "sum"
    /\ \E read \in FxCountsRead :
          LET job == fxjob[id]
              sum == [ b \in FxBuckets |->
                         SumUpTo([ t \in FxJobs |-> read[t][b] ],
                                 fxThreadCount - 1) ]
              padded == [ b \in FxBuckets |->
                            IF fxFileBlockSize # 0 /\ b < BB_DP_BUCKET_COUNT - 1
                              THEN FxRoundUp(sum[b]) ELSE sum[b] ]
          IN  FxSetJob(id, [ job EXCEPT
                 !.pc = "subtract",
                 !.bucketCounts = IF FxIsControlThread(id) THEN sum ELSE @,
                 !.entryPadding = [ b \in FxBuckets |-> padded[b] - sum[b] ],
                 !.pfxSum = FxRunningSum(padded) ])
    /\ UNCHANGED << fxOut, fxBucketIdOut, totalBucketCounts, fxClassified, fxComputed >>
    /\ UNCHANGED notfx

\* Lines 753-771: less the counts of the jobs after this one, less the
\* padding.
FxSubtractCounts(id) ==
    /\ fxjob[id].pc = "subtract"
    /\ \E read \in FxCountsRead :
          LET job == fxjob[id]
          IN  FxSetJob(id, [ job EXCEPT
                 !.pc = "distribute",
                 !.i = 0,
                 !.pfxSum = [ b \in FxBuckets |->
                    job.pfxSum[b]
                      - SumUpTo([ t \in FxJobs |->
                                    IF t > id THEN read[t][b] ELSE 0 ],
                                fxThreadCount - 1)
                      - job.entryPadding[b] ] ])
    /\ UNCHANGED << fxOut, fxBucketIdOut, totalBucketCounts, fxClassified, fxComputed >>
    /\ UNCHANGED notfx

\* Lines 657-668, one pass of the loop: dstIdx = --pfxSum[bucketIndices[i]],
\* yBuckets[dstIdx] = y[i], metaABuckets[dstIdx] = metaA[i], where y and
\* metaA are yTmp and metaATmp of the job. A dstIdx outside the buffers ends
\* the model of the job. After the loop the call returns and its counts are
\* gone.
FxDistributeIntoBuckets(id) ==
    /\ fxjob[id].pc = "distribute"
    /\ LET job == fxjob[id]
           dstIdx == job.pfxSum[fxBucketIdOut[job.i]] - 1
       IN  IF job.i < job.entryCount
             THEN IF dstIdx \in 0..(FxOutLen - 1)
                    THEN /\ fxOut' = [ fxOut EXCEPT ![dstIdx] =
                                         [ y |-> fxTmp[job.yTmp + job.i].y,
                                           meta |-> IF fxTable = "Table7"
                                                      THEN @.meta
                                                      ELSE fxTmp[job.yTmp + job.i].meta ] ]
                         /\ FxSetJob(id,
                               FxLoop([ job EXCEPT
                                          !.pfxSum[fxBucketIdOut[job.i]] = dstIdx ],
                                      [ job EXCEPT
                                          !.pfxSum[fxBucketIdOut[job.i]] = dstIdx,
                                          !.pc = "totals", !.i = 0,
                                          !.countsLive = FALSE ]))
                    ELSE /\ FxSetJob(id, [ job EXCEPT !.pc = "fault" ])
                         /\ UNCHANGED fxOut
             ELSE /\ FxSetJob(id, [ job EXCEPT !.pc = "totals",
                                               !.i = 0,
                                               !.countsLive = FALSE ])
                  /\ UNCHANGED fxOut
    /\ UNCHANGED << fxBucketIdOut, totalBucketCounts, fxClassified, fxComputed >>
    /\ UNCHANGED notfx

\* Lines 443-462: the control thread adds bucketCounts to the totals of the
\* stage; pairs moves on by entriesPerChunk, which nobody set; the next
\* chunk, or the end of the job.
FxNextChunk(id) ==
    /\ fxjob[id].pc = "totals"
    /\ totalBucketCounts' =
          IF FxIsControlThread(id)
            THEN [ b \in FxBuckets |->
                     totalBucketCounts[b] + fxjob[id].bucketCounts[b] ]
            ELSE totalBucketCounts
    /\ \E entriesPerChunk \in FxGarbage :
          /\ fxjob[id].chunk + 1 >= fxjob[id].chunkCount => entriesPerChunk = 0
          /\ FxSetJob(id, [ fxjob[id] EXCEPT
                !.pairs = @ + entriesPerChunk,
                !.chunk = @ + 1,
                !.pc = IF fxjob[id].chunk + 1 < fxjob[id].chunkCount
                         THEN "compute" ELSE "done" ])
    /\ UNCHANGED << fxOut, fxBucketIdOut, fxClassified, fxComputed >>
    /\ UNCHANGED notfx

-----------------------------------------------------------------------------
(* The specification of GenFxBucketized: the jobs of one stage *)

FxStart ==
    /\ fxOut = [ d \in 0..(FxOutLen - 1) |-> [ y |-> -1, meta |-> << -1, -1 >> ] ]
    /\ fxBucketIdOut = [ i \in 0..(MaxFxEntries - 1) |-> 0 ]
    /\ totalBucketCounts = [ b \in FxBuckets |-> 0 ]
    /\ fxClassified = [ b \in FxBuckets |-> 0 ]
    /\ fxComputed = { }

FxInit ==
    /\ fxThreadCount \in 1..MaxFxThreads
    /\ fxTable \in FxTables
    /\ fxFileBlockSize \in { 0, FxFileBlockSize }
    /\ fxBucketIdx \in FxInputBuckets
    /\ fxPairs \in FxInputs
    /\ fxTmp \in FxStaleBuffers
    /\ \E chunkCount, trailingChunkEntries \in [ FxJobs -> FxGarbage ] :
          fxjob = [ i \in FxJobs |->
                      FxJobSetUp(i, chunkCount[i], trailingChunkEntries[i]) ]
    /\ FxStart

\* GenFxBucketized as the other specifications see it: not run.
FxIdle ==
    /\ fxThreadCount = 1
    /\ fxTable = "Table2"
    /\ fxFileBlockSize = 0
    /\ fxBucketIdx = 0
    /\ fxPairs = CHOOSE p \in FxInputs : TRUE
    /\ fxTmp = CHOOSE b \in FxStaleBuffers : TRUE
    /\ fxjob = [ i \in FxJobs |-> [ FxJobSetUp(i, 0, 0) EXCEPT !.pc = "idle" ] ]
    /\ FxStart

FxDone == \A id \in FxJobs : fxjob[id].pc = "done"

\* GenFxBucketized called: the arguments of the call and the jobs it sets
\* up.
GenFxBucketized ==
    /\ NothingCalled
    /\ fxThreadCount' \in 1..MaxFxThreads
    /\ fxTable' \in FxTables
    /\ fxFileBlockSize' \in { 0, FxFileBlockSize }
    /\ fxBucketIdx' \in FxInputBuckets
    /\ fxPairs' \in FxInputs
    /\ fxTmp' \in FxStaleBuffers
    /\ \E chunkCount, trailingChunkEntries \in
              [ 0..(MaxFxThreads - 1) -> FxGarbage ] :
          fxjob' = [ i \in 0..(fxThreadCount' - 1) |->
                       FxJobSetUp(i, chunkCount[i], trailingChunkEntries[i])' ]
    /\ UNCHANGED << fxOut, fxBucketIdOut, totalBucketCounts, fxClassified, fxComputed >>
    /\ UNCHANGED << qvars, heapvars, ctorvars, iovars, f1vars, suvars, rtvars >>

-----------------------------------------------------------------------------
(* The work heap: WorkHeap::Alloc, Release, CompletePendingReleases *)

\* A span of the arena: the blocks addr .. addr + size - 1.
SpanBlocks(s) == s.addr..(s.addr + s.size - 1)

\* The whole arena as one free span.
HeapArena == [ addr |-> 0, size |-> HeapSize ]

\* The free list after a span was put back: the span is joined with the
\* free spans that end where it starts or start where it ends.
HeapCoalesce(free, span) ==
    LET joined == { s \in free : \/ s.addr + s.size = span.addr
                                 \/ span.addr + span.size = s.addr } \cup { span }
        first  == CHOOSE s \in joined : \A u \in joined : s.addr <= u.addr
        last   == CHOOSE s \in joined : \A u \in joined : u.addr <= s.addr
    IN  (free \ joined) \cup
          { [ addr |-> first.addr,
              size |-> last.addr + last.size - first.addr ] }

\* The free spans Alloc can take `size` blocks from, and the first of them.
HeapFits(free, size) == { s \in free : s.size >= size }

HeapFirstFit(free, size) ==
    CHOOSE s \in HeapFits(free, size) :
        \A u \in HeapFits(free, size) : s.addr <= u.addr

\* The free list after `size` blocks were taken from the start of span s.
HeapTake(free, s, size) ==
    (free \ { s }) \cup
      (IF s.size > size
         THEN { [ addr |-> s.addr + size, size |-> s.size - size ] }
         ELSE { })

\* Mutation: the dispatch thread hands no buffer to the heap.
HeapReleasedNone == << >>

\* The ReleaseBuffer case of ExecuteCommand:
\* _workHeap.Release( cmd.releaseBuffer.buffer ) puts the buffer of the
\* command on the pending releases of the heap. The buffers released so
\* far, in the order of the calls.
HeapReleased ==
    LET RECURSIVE R(_)
        R(i) == IF i = 0 THEN << >>
                ELSE IF executed[i].type = "ReleaseBuffer"
                       THEN Append(R(i - 1), cmdBuffer[executed[i].id])
                       ELSE R(i - 1)
    IN  R(Len(executed))

\* The pending releases: released by the dispatch thread and not yet taken
\* by CompletePendingReleases.
HeapPendingReleases ==
    IF heapApplied < Len(HeapReleased)
      THEN SubSeq(HeapReleased, heapApplied + 1, Len(HeapReleased))
      ELSE << >>

\* The free list with the pending releases put back.
HeapCompleted ==
    LET RECURSIVE C(_)
        C(i) == IF i = 0 THEN heapFree
                ELSE HeapCoalesce(C(i - 1), heapLent[HeapPendingReleases[i]])
    IN  C(Len(HeapPendingReleases))

\* The producer is in none of its calls, and has written the buffer of
\* every command GetCommandObject gave it.
PayloadsSet == ppc = "idle" /\ Len(cmdBuffer) = issued

\* The lent buffers for which the producer has not yet submitted a
\* ReleaseBuffer: the ones it may still hand to a command.
HeldBuffers ==
    { b \in 1..Len(heapLent) :
        \A id \in 1..Len(cmdBuffer) :
            ~(filled[id].type = "ReleaseBuffer" /\ cmdBuffer[id] = b) }

\* The commands the producer may still submit (MaxCmds bounds a behaviour)
\* beyond one ReleaseBuffer for every buffer it holds.
CommandsToSpare == MaxCmds - issued - Cardinality(HeldBuffers)

\* GetBuffer( size ): _workHeap.Alloc( size, _blockSize ). Alloc takes the
\* pending releases first; it returns when a free span fits and waits
\* otherwise. The producer takes a buffer only when it can still submit the
\* ReleaseBuffer for it.
GetBuffer(size) ==
    /\ PayloadsSet
    /\ Len(heapLent) < MaxLends
    /\ CommandsToSpare > 0
    /\ HeapFits(HeapCompleted, size) # { }
    /\ LET s == HeapFirstFit(HeapCompleted, size)
       IN  /\ heapFree' = HeapTake(HeapCompleted, s, size)
           /\ heapLent' = Append(heapLent, [ addr |-> s.addr, size |-> size ])
    /\ heapApplied' = Len(HeapReleased)
    /\ UNCHANGED cmdBuffer
    /\ UNCHANGED << qvars, notheap >>

\* CompletePendingReleases(): _workHeap.CompletePendingReleases()
CompletePendingReleases ==
    /\ PayloadsSet
    /\ HeapPendingReleases # << >>
    /\ heapFree' = HeapCompleted
    /\ heapApplied' = Len(HeapReleased)
    /\ UNCHANGED << heapLent, cmdBuffer >>
    /\ UNCHANGED << qvars, notheap >>

\* WriteFile( id, bucket, buffer, size ) after GetCommandObject returned:
\* cmd->file.buffer = buffer.
WriteFile(buffer) ==
    /\ ppc = "idle"
    /\ Len(cmdBuffer) < issued
    /\ filled[issued].type = "WriteFile"
    /\ buffer \in HeldBuffers
    /\ cmdBuffer' = Append(cmdBuffer, buffer)
    /\ UNCHANGED << heapFree, heapLent, heapApplied >>
    /\ UNCHANGED << qvars, notheap >>

\* ReleaseBuffer( buffer ) after GetCommandObject returned:
\* cmd->releaseBuffer.buffer = buffer.
ReleaseBuffer(buffer) ==
    /\ ppc = "idle"
    /\ Len(cmdBuffer) < issued
    /\ filled[issued].type = "ReleaseBuffer"
    /\ buffer \in HeldBuffers
    /\ cmdBuffer' = Append(cmdBuffer, buffer)
    /\ UNCHANGED << heapFree, heapLent, heapApplied >>
    /\ UNCHANGED << qvars, notheap >>

\* The heap after construction: WorkHeap( workBufferSize, workBuffer ).
HeapInit ==
    /\ heapFree = { HeapArena }
    /\ heapLent = << >>
    /\ heapApplied = 0
    /\ cmdBuffer = << >>

-----------------------------------------------------------------------------
(* The constructor: InitFileSet for every file set, then the dispatch      *)
(* thread                                                                  *)

\* The file sets in the order of the InitFileSet calls.
FileIds == << "Y0", "Y1", "META_A_0", "META_A_1", "META_B_0", "META_B_1", "X" >>

\* The files the constructor opens: bucketCount files for every file set.
FileCount == Len(FileIds) * BB_DP_BUCKET_COUNT

\* The block sizes a file may report.
FileBlockSizes == 1..(BlockSize + 2)

NoBlockSize == 0

\* if( file.BlockSize() != _blockSize ) that never finds a difference.
BlockSizeDiffersNever(blockSize) == FALSE

\* if( file.BlockSize() != _blockSize )
BlockSizeDiffers(blockSize) == blockSize # _blockSize

\* Fatal( ... ), FatalIf( ... ) in the constructor: the process ends.
CtorFatal ==
    /\ ctorPc' = "fatal"
    /\ UNCHANGED << ctorFile, dispatchRunning >>

\* One pass of the for loop of InitFileSet: the file is opened; the first
\* file gives _blockSize and the block buffer, every other file is
\* compared with _blockSize. `ok` is the result of Open, `blockSize` what
\* BlockSize() returns, `alloc` whether VirtualAlloc returns a buffer.
InitFileSet(ok, blockSize, alloc) ==
    /\ ctorPc = "files"
    /\ ctorFile < FileCount
    /\ IF ~ok
         THEN /\ opened' = Append(opened, [ ok |-> FALSE, blockSize |-> NoBlockSize ])
              /\ CtorFatal
              /\ UNCHANGED << _blockSize, _blockBuffer >>
         ELSE /\ opened' = Append(opened, [ ok |-> TRUE, blockSize |-> blockSize ])
              /\ IF ~_blockBuffer
                   THEN /\ _blockSize' = blockSize
                        /\ IF blockSize < 2
                             THEN CtorFatal /\ UNCHANGED _blockBuffer
                             ELSE IF ~alloc
                                    THEN CtorFatal /\ UNCHANGED _blockBuffer
                                    ELSE /\ _blockBuffer' = TRUE
                                         /\ ctorFile' = ctorFile + 1
                                         /\ UNCHANGED << ctorPc, dispatchRunning >>
                   ELSE /\ UNCHANGED << _blockSize, _blockBuffer >>
                        /\ IF BlockSizeDiffers(blockSize)
                             THEN CtorFatal
                             ELSE /\ ctorFile' = ctorFile + 1
                                  /\ UNCHANGED << ctorPc, dispatchRunning >>
    /\ UNCHANGED notctor

\* _dispatchThread.Run( CommandThreadMain, this ), after the last
\* InitFileSet returned.
RunDispatchThread ==
    /\ ctorPc = "files"
    /\ ctorFile = FileCount
    /\ ctorPc' = "done"
    /\ dispatchRunning' = TRUE
    /\ UNCHANGED << ctorFile, _blockSize, _blockBuffer, opened >>
    /\ UNCHANGED notctor

\* The constructor at its first InitFileSet call.
CtorStart ==
    /\ ctorPc = "files"
    /\ ctorFile = 0
    /\ _blockSize = NoBlockSize
    /\ _blockBuffer = FALSE
    /\ opened = << >>
    /\ dispatchRunning = FALSE

\* The queue as the other specifications start with it: constructed, every
\* file reporting BlockSize.
Constructed ==
    /\ ctorPc = "done"
    /\ ctorFile = FileCount
    /\ _blockSize = BlockSize
    /\ _blockBuffer = TRUE
    /\ opened = [ i \in 1..FileCount |-> [ ok |-> TRUE, blockSize |-> BlockSize ] ]
    /\ dispatchRunning = TRUE

-----------------------------------------------------------------------------
(* GenFxBucketized: the set-up of the jobs, up to jobs.Run *)

\* Largest entryCount and threadCount the set-up is run with.
MaxSetUpEntries == 8

MaxSetUpThreads == 4

\* const uint32 entriesPerThread = entryCount / threadCount
GenFxEntriesPerThread(entryCount, threadCount) == entryCount \div threadCount

\* Mutation: the entries the division leaves are given to no job.
GenFxTrailingEntriesDropped(entryCount, threadCount) == 0

\* uint32 trailingEntries = entryCount - entriesPerThread * threadCount
GenFxTrailingEntries(entryCount, threadCount) ==
    entryCount - GenFxEntriesPerThread(entryCount, threadCount) * threadCount

\* GenFxBucketized( ..., threadCount, ..., entryCount, pairs, ..., yTmp, ... )
\* before the loop over the jobs. pairs and yTmp are counted from what the
\* caller passed.
GenFxSetUpStart(entryCount, threadCount) ==
    [ pc |-> "loop",
      entryCount |-> entryCount,
      threadCount |-> threadCount,
      entriesPerThread |-> GenFxEntriesPerThread(entryCount, threadCount),
      trailingEntries |-> GenFxTrailingEntries(entryCount, threadCount),
      i |-> 0,
      pairs |-> 0,
      yTmp |-> 0,
      jobs |-> << >> ]

\* Lines 288-328, one pass of the loop: job i takes entriesPerThread
\* entries, and one more while trailing entries are left; pairs and yTmp
\* move on behind its entries.
GenFxSetUpJob ==
    /\ fxSetUp.pc = "loop"
    /\ fxSetUp.i < fxSetUp.threadCount
    /\ LET entryCount == fxSetUp.entriesPerThread
                           + (IF fxSetUp.trailingEntries # 0 THEN 1 ELSE 0)
       IN  fxSetUp' = [ fxSetUp EXCEPT
              !.jobs = Append(@, [ entryCount |-> entryCount,
                                   pairs |-> fxSetUp.pairs,
                                   yTmp |-> fxSetUp.yTmp ]),
              !.trailingEntries = IF @ # 0 THEN @ - 1 ELSE @,
              !.pairs = @ + entryCount,
              !.yTmp = @ + entryCount,
              !.i = @ + 1 ]
    /\ UNCHANGED fxChunked
    /\ UNCHANGED notsu

\* Line 330: jobs.Run( threadCount ), when the loop is over.
GenFxRunJobs ==
    /\ fxSetUp.pc = "loop"
    /\ fxSetUp.i = fxSetUp.threadCount
    /\ fxSetUp' = [ fxSetUp EXCEPT !.pc = "run" ]
    /\ UNCHANGED fxChunked
    /\ UNCHANGED notsu

-----------------------------------------------------------------------------
(* GenFxBucketizedChunked: the chunk plan and the jobs *)

\* The bits of a uint32 of the plan, at the scale of the model.
ChunkWordBits == 4

ChunkUInt32(v) == v % (2 ^ ChunkWordBits)

\* Largest entryCount, and largest number of entries a chunk buffer holds.
MaxChunkEntries == 5

\* sizeof( size_t ), of outMetaSizeA and outMetaSizeB.
SizeOfSizeT == 8

\* sizePerEntry = sizeof( uint32 ) + sizeof( outMetaSizeA )
\*                  + sizeof( outMetaSizeB )
ChunkSizePerEntry == FxEntrySize + SizeOfSizeT + SizeOfSizeT

\* fileBlockSize = diskQueue ? 1ull : diskQueue->BlockSize(), with a queue.
ChunkFileBlockSize == 1

\* bucketBlockAlignSize = fileBlockSize * BB_DP_BUCKET_COUNT
ChunkBucketBlockAlignSize == ChunkFileBlockSize * BB_DP_BUCKET_COUNT

\* usableChunkSize = directIO ? chunkSize
\*                            : chunkSize - bucketBlockAlignSize * 2
ChunkUsableSize(chunkSize, directIO) ==
    IF directIO THEN chunkSize ELSE chunkSize - ChunkBucketBlockAlignSize * 2

\* The chunk sizes of the model: 0, which means unchunked, and the sizes of
\* buffers that hold up to MaxChunkEntries entries and the space for the
\* alignment.
ChunkSizes ==
    { 0 } \cup { c * ChunkSizePerEntry + ChunkBucketBlockAlignSize * 2 :
                   c \in 0..MaxChunkEntries }

\* entriesPerChunk = chunkSize == 0 ? entryCount
\*                     : (uint32)( usableChunkSize / sizePerEntry )
ChunkEntriesPerChunk(chunkSize, directIO, entryCount) ==
    IF chunkSize = 0
      THEN entryCount
      ELSE ChunkUInt32(ChunkUsableSize(chunkSize, directIO) \div ChunkSizePerEntry)

\* The call of GenFxBucketizedChunked: diskQueue is a queue or null.
ChunkedStart(diskQueue, threadCount, chunkSize, directIO, entryCount) ==
    [ pc |-> "plan",
      diskQueue |-> diskQueue,
      threadCount |-> threadCount,
      chunkSize |-> chunkSize,
      directIO |-> directIO,
      entryCount |-> entryCount,
      entriesPerChunk |-> 0,
      chunkCount |-> 0,
      chunkTrailingEntries |-> 0,
      entriesPerThread |-> 0,
      jobs |-> << >> ]

\* Lines 116-133: the sizes, and the first values of the plan. With no
\* queue line 123 reads the block size through a null pointer: the call
\* ends there, or goes on as if the branch were never taken. With no
\* entries line 129 divides by zero.
ChunkedPlan ==
    /\ fxChunked.pc = "plan"
    /\ LET c == fxChunked
           entriesPerChunk ==
               ChunkEntriesPerChunk(c.chunkSize, c.directIO, c.entryCount)
           chunkCount == entriesPerChunk \div c.entryCount
       IN  \/ /\ ~c.diskQueue \/ c.entryCount = 0
              /\ fxChunked' = [ c EXCEPT !.pc = "fault" ]
           \/ /\ c.entryCount # 0
              /\ fxChunked' = [ c EXCEPT
                    !.pc = "while",
                    !.entriesPerChunk = entriesPerChunk,
                    !.chunkCount = chunkCount,
                    !.chunkTrailingEntries =
                        ChunkUInt32(c.entryCount - entriesPerChunk * chunkCount),
                    !.entriesPerThread = entriesPerChunk \div c.threadCount ]
    /\ UNCHANGED fxSetUp
    /\ UNCHANGED notsu

\* Lines 136-140, the test and one pass of the loop:
\* while( chunkTrailingEntries >= chunkCount )
\*     { chunkCount++; chunkTrailingEntries -= entriesPerChunk; }
ChunkedWhile ==
    /\ fxChunked.pc = "while"
    /\ fxChunked' =
          IF fxChunked.chunkTrailingEntries >= fxChunked.chunkCount
            THEN [ fxChunked EXCEPT
                     !.chunkCount = ChunkUInt32(@ + 1),
                     !.chunkTrailingEntries =
                         ChunkUInt32(@ - fxChunked.entriesPerChunk) ]
            ELSE [ fxChunked EXCEPT !.pc = "jobs" ]
    /\ UNCHANGED fxSetUp
    /\ UNCHANGED notsu

\* Lines 146-197: the jobs take the plan, and the entries of a chunk are
\* split among them; the function ends without running them.
ChunkedSetUpJobs ==
    /\ fxChunked.pc = "jobs"
    /\ fxChunked' = [ fxChunked EXCEPT
          !.pc = "planned",
          !.jobs = [ i \in 1..fxChunked.threadCount |->
                       [ entryCount |->
                             FxJobEntryCount(fxChunked.entriesPerChunk,
                                             fxChunked.threadCount, i - 1),
                         chunkCount |-> fxChunked.chunkCount,
                         entriesPerChunk |-> fxChunked.entriesPerChunk,
                         trailingChunkEntries |->
                             fxChunked.chunkTrailingEntries ] ] ]
    /\ UNCHANGED fxSetUp
    /\ UNCHANGED notsu

\* RunForTable, lines 405-434: the entries a job computes in a chunk. The
\* trailing chunk is told apart (417) and takes the same entryCount.
RunForTableChunkEntries(job, chunk) == job.entryCount

\* Neither set-up was called.
SetUpIdle ==
    /\ fxSetUp = [ GenFxSetUpStart(0, 1) EXCEPT !.pc = "idle" ]
    /\ fxChunked = [ ChunkedStart(TRUE, 1, 0, FALSE, 0) EXCEPT !.pc = "idle" ]

-----------------------------------------------------------------------------
(* WriteFile, SeekFile, ReadFile on one bucket file, with the bytes *)

\* Largest size of the command: below, at and above one and two blocks.
RoundTripMaxSize == 2 * BlockSize + 1

\* The bytes of the buffer of the WriteFile command: byte j is j + 1, so
\* that no two places of the buffer hold the same byte and none holds the
\* zero of the block buffer.
RoundTripBuffer(size) == [ j \in 1..size |-> j ]

\* The size of the buffer of the ReadFile command: the buffers are as long
\* as the size rounded up to the next block boundary.
RoundTripDstSize(size) == RoundUpToNextBoundaryT(size, BlockSize)

\* blockBuffer after memset( blockBuffer, 0, blockSize ) and
\* memcpy( blockBuffer, buffer, remainder ).
RoundTripBlockBuffer(buffer, src, remainder) ==
    [ j \in 1..BlockSize |-> IF j <= remainder THEN buffer[src + j] ELSE 0 ]

\* The file after FileStream::Write put the first n bytes of data at pos.
RoundTripFileWritten(file, pos, data, n) ==
    [ j \in 1..Max(Len(file), pos + n) |->
        IF pos < j /\ j <= pos + n THEN data[j - pos] ELSE file[j] ]

\* The buffer after FileStream::Read put n bytes of the file, from pos on,
\* at dst + off.
RoundTripBufferRead(dst, off, file, pos, n) ==
    [ j \in 1..Len(dst) |->
        IF off < j /\ j <= off + n THEN file[pos + (j - off)] ELSE dst[j] ]

\* A file of `length` bytes written before (-1), the cursor at start, and
\* the two commands not yet executed; the buffer to read into holds
\* nothing of the file (-2).
RoundTripStart(directIO, size, length, start) ==
    [ pc |-> "writeFile", directIO |-> directIO, size |-> size,
      start |-> start,
      file |-> [ j \in 1..length |-> -1 ], pos |-> start,
      buffer |-> RoundTripBuffer(size),
      dst |-> [ j \in 1..RoundTripDstSize(size) |-> -2 ],
      src |-> 0, left |-> 0, remainder |-> 0,
      transferred |-> 0, shortBlock |-> FALSE ]

\* CndWriteFile, and WriteToFile up to its loop.
RoundTripWriteFile ==
    /\ rt.pc = "writeFile"
    /\ rt' = [ rt EXCEPT
          !.pc = "write",
          !.src = 0,
          !.left = IF rt.directIO THEN (rt.size \div BlockSize) * BlockSize
                   ELSE rt.size,
          !.remainder = IF rt.directIO
                          THEN rt.size - (rt.size \div BlockSize) * BlockSize
                          ELSE 0 ]
    /\ UNCHANGED notrt

\* One pass of a while loop of WriteToFile, or its end.
RoundTripWriteLoop ==
    /\ rt.pc = "write"
    /\ IF rt.left > 0
         THEN \E sizeWritten \in WriteResults(rt.left) :
                rt' = [ rt EXCEPT
                   !.file = RoundTripFileWritten(rt.file, rt.pos,
                               [ j \in 1..rt.left |-> rt.buffer[rt.src + j] ],
                               sizeWritten),
                   !.pos = @ + sizeWritten,
                   !.left = @ - sizeWritten,
                   !.src = @ + sizeWritten ]
         ELSE rt' = [ rt EXCEPT
                 !.pc = IF rt.directIO /\ rt.remainder # 0
                          THEN "block" ELSE "seekFile" ]
    /\ UNCHANGED notrt

\* if( remainder ): one Write of the block buffer, whose result is only
\* tested for being below 1.
RoundTripWriteBlock ==
    /\ rt.pc = "block"
    /\ \E sizeWritten \in WriteResults(BlockSize) :
          rt' = [ rt EXCEPT
             !.file = RoundTripFileWritten(rt.file, rt.pos,
                         RoundTripBlockBuffer(rt.buffer, rt.src, rt.remainder),
                         sizeWritten),
             !.pos = @ + sizeWritten,
             !.shortBlock = sizeWritten < BlockSize,
             !.pc = "seekFile" ]
    /\ UNCHANGED notrt

\* case Command::SeekFile, with the offset at which the write began and
\* SeekOrigin::Begin.
RoundTripSeekFile ==
    /\ rt.pc = "seekFile"
    /\ rt' = [ rt EXCEPT !.pos = rt.start, !.pc = "readFile" ]
    /\ UNCHANGED notrt

\* CmdReadFile, and ReadFromFile up to its loop.
RoundTripReadFile ==
    /\ rt.pc = "readFile"
    /\ rt' = [ rt EXCEPT
          !.pc = "read",
          !.src = 0,
          !.left = IF rt.directIO THEN CDivT(rt.size, BlockSize) * BlockSize
                   ELSE rt.size ]
    /\ UNCHANGED notrt

\* One pass of a while loop of ReadFromFile, or its end. At the end of the
\* file Read returns 0, and the handler is fatal.
RoundTripReadLoop ==
    /\ rt.pc = "read"
    /\ IF rt.left > 0
         THEN IF Len(rt.file) - rt.pos < 1
                THEN rt' = [ rt EXCEPT !.pc = "fatal" ]
                ELSE \E sizeRead \in 1..Min(rt.left, Len(rt.file) - rt.pos) :
                       rt' = [ rt EXCEPT
                          !.dst = RoundTripBufferRead(rt.dst, rt.src, rt.file,
                                                      rt.pos, sizeRead),
                          !.pos = @ + sizeRead,
                          !.left = @ - sizeRead,
                          !.src = @ + sizeRead,
                          !.transferred = @ + sizeRead ]
         ELSE rt' = [ rt EXCEPT !.pc = "done" ]
    /\ UNCHANGED notrt

\* No such commands were given.
RoundTripIdle == rt = [ RoundTripStart(FALSE, 0, 0, 0) EXCEPT !.pc = "idle" ]

-----------------------------------------------------------------------------
(* DiskF1: the region of `blocks` of a job, and the keystream it takes *)

\* Largest f1ThreadCount of the jobs followed here: above half the entries
\* of a round.
MaxRegionThreads == 40

\* A job of GenF1 before the constructor of DiskF1 has run.
F1RegionStart(threadCount, id) ==
    [ pc |-> "construct", threadCount |-> threadCount, id |-> id,
      allocCount |-> 0, blocks |-> 0, regionWords |-> 0,
      bucket |-> 0, tableEntryCount |-> F1TableEntryCount,
      keystreamWords |-> 0 ]

\* The constructor, lines 27-39, and lines 66-72 of the job: _blocks holds
\* entryAllocCount words, and the region of the job starts at
\* blocksPerThread * entriesPerBlock * id.
F1RegionConstruct ==
    /\ f1Region.pc = "construct"
    /\ f1Region' = [ f1Region EXCEPT
          !.pc = "round",
          !.allocCount = entryAllocCount(f1Region.threadCount),
          !.blocks = blocksPerThread(f1Region.threadCount) * entriesPerBlock
                       * f1Region.id,
          !.regionWords = blocksPerThread(f1Region.threadCount)
                            * entriesPerBlock ]
    /\ UNCHANGED notregion

\* Lines 89-101 and 180 of a round: the entries of the job, its blockCount,
\* and the words chacha8_get_keystream writes from `blocks` on.
F1RegionRound ==
    /\ f1Region.pc = "round"
    /\ LET bucketEntryCount == BucketEntryCount(f1Region.tableEntryCount)
           entriesPerThread ==
               F1ThreadEntries(f1Region.threadCount, f1Region.id,
                               bucketEntryCount)
       IN  f1Region' = [ f1Region EXCEPT
              !.keystreamWords = BlockCount(entriesPerThread) * entriesPerBlock,
              !.tableEntryCount = @ - bucketEntryCount,
              !.bucket = @ + 1,
              !.pc = IF f1Region.bucket + 1 < _numBuckets
                       THEN "round" ELSE "done" ]
    /\ UNCHANGED notregion

\* No such job.
F1RegionIdle == f1Region = [ F1RegionStart(1, 0) EXCEPT !.pc = "idle" ]

-----------------------------------------------------------------------------
(* WriteBuckets: the sizes array of the producer and the command *)

\* The producer with its array `sizes`, about to call WriteBuckets.
WriteBucketsStart(sizes) ==
    [ pc |-> "call", sizes |-> sizes, submitted |-> NoSizes,
      i |-> 0, read |-> << >> ]

\* WriteBuckets( id, buckets, sizes ): cmd->buckets.sizes = sizes, the
\* address of the producer's array. `submitted` keeps what the array held
\* at the call.
WriteBuckets ==
    /\ wb.pc = "call"
    /\ wb' = [ wb EXCEPT !.pc = "queued", !.submitted = wb.sizes ]
    /\ UNCHANGED notwb

\* The producer, back from WriteBuckets, stores a size in its array.
WriteBucketsProducerStores(b, size) ==
    /\ wb.pc \in { "queued", "loop" }
    /\ wb.sizes[b] # size
    /\ wb' = [ wb EXCEPT !.sizes[b] = size ]
    /\ UNCHANGED notwb

\* CmdWriteBuckets up to its loop: const uint* sizes = cmd.buckets.sizes.
WriteBucketsExecuted ==
    /\ wb.pc = "queued"
    /\ wb' = [ wb EXCEPT !.pc = "loop", !.i = 0 ]
    /\ UNCHANGED notwb

\* One pass of the loop: const size_t bufferSize = sizes[i], read through
\* the pointer of the command; `read` keeps the sizes the handler took.
WriteBucketsReadsSize ==
    /\ wb.pc = "loop"
    /\ IF wb.i < BB_DP_BUCKET_COUNT
         THEN wb' = [ wb EXCEPT !.read = Append(@, wb.sizes[wb.i]),
                                !.i = @ + 1 ]
         ELSE wb' = [ wb EXCEPT !.pc = "done" ]
    /\ UNCHANGED notwb

\* No such command.
WriteBucketsIdle == wb = [ WriteBucketsStart(NoSizes) EXCEPT !.pc = "idle" ]

-----------------------------------------------------------------------------
(* The queue's specification *)

QueueInit ==
    /\ ring = [ s \in 0..(Capacity - 1) |-> NoCommand ]
    /\ writePosition = 0
    /\ pendingCount = 0
    /\ committedCount = 0
    /\ readPosition = 0
    /\ cmdReadySignal = FALSE
    /\ cmdConsumedSignal = FALSE
    /\ ppc = "idle"
    /\ ptype = "None"
    /\ issued = 0
    /\ committedIds = 0
    /\ filled = << >>
    /\ dpc = "wait"
    /\ commands = << >>
    /\ cmdCount = 0
    /\ ci = 0
    /\ executed = << >>
    /\ fenceSignals = [ id \in 1..MaxCmds |-> 0 ]

Producer ==
    \/ \E type \in CommandTypes : GetCommandObject(type)
    \/ WaitConsumed
    \/ RetryWrite
    \/ CommitCommands
    \/ SignalReady

Dispatcher ==
    \/ WaitReady
    \/ Dequeue
    \/ DequeueRelease
    \/ SignalConsumed
    \/ ExecuteCommand

Init ==
    QueueInit /\ HeapInit /\ Constructed /\ IoIdle /\ F1Idle /\ FxIdle
      /\ SetUpIdle /\ RoundTripIdle /\ F1RegionIdle /\ WriteBucketsIdle

Next == Producer \/ Dispatcher

Spec == Init /\ [][Next]_vars

\* The command handlers alone.
InitIo ==
    QueueInit /\ HeapInit /\ Constructed /\ IoInit /\ F1Idle /\ FxIdle
      /\ SetUpIdle /\ RoundTripIdle /\ F1RegionIdle /\ WriteBucketsIdle

NextIo ==
    \/ \E b \in IoBuckets, n \in IoSizes : CndWriteFile(b, n)
    \/ \E b \in IoBuckets, n \in IoSizes : CmdReadFile(b, n)
    \/ \E sizes \in [ IoBuckets -> IoSizes ] : CmdWriteBuckets(sizes)
    \/ \E b \in IoBuckets, o \in IoOffsets, g \in SeekOrigins : CmdSeekFile(b, o, g)
    \/ \E o \in IoOffsets, g \in SeekOrigins : CmdSeekBucket(o, g)
    \/ WriteBucketsLoop
    \/ WriteLoop
    \/ WriteBlock
    \/ ReadLoop

SpecIo == InitIo /\ [][NextIo]_vars

\* GenF1 alone.
InitF1 ==
    QueueInit /\ HeapInit /\ Constructed /\ IoIdle /\ F1Init /\ FxIdle
      /\ SetUpIdle /\ RoundTripIdle /\ F1RegionIdle /\ WriteBucketsIdle

NextF1 ==
    \/ \E id \in F1Jobs : F1Generate(id)
    \/ \E id \in F1Jobs : F1CalculatePrefixSum(id)
    \/ \E id \in F1Jobs : F1ControlThread(id)
    \/ \E id \in F1Jobs : F1WaitForRelease(id)
    \/ \E id \in F1Jobs : F1DistributeEntries(id)
    \/ \E id \in F1Jobs : F1CompressFirst(id)
    \/ \E id \in F1Jobs : F1CompressRest(id)
    \/ \E id \in F1Jobs : F1NextBucket(id)

SpecF1 == InitF1 /\ [][NextF1]_vars

\* GenFxBucketized alone.
InitFx ==
    QueueInit /\ HeapInit /\ Constructed /\ IoIdle /\ F1Idle /\ FxInit
      /\ SetUpIdle /\ RoundTripIdle /\ F1RegionIdle /\ WriteBucketsIdle

NextFx ==
    \/ \E id \in FxJobs : FxRun(id)
    \/ \E id \in FxJobs : FxCompute(id)
    \/ \E id \in FxJobs : FxCount(id)
    \/ \E id \in FxJobs : FxSyncThreads(id)
    \/ \E id \in FxJobs : FxCalculatePrefixSum(id)
    \/ \E id \in FxJobs : FxSubtractCounts(id)
    \/ \E id \in FxJobs : FxDistributeIntoBuckets(id)
    \/ \E id \in FxJobs : FxNextChunk(id)

SpecFx == InitFx /\ [][NextFx]_vars

\* The classification of the entries: a call of GenF1, or a call of
\* GenFxBucketized whose jobs run up to the end of their ComputeFxForTable.
InitClassify ==
    QueueInit /\ HeapInit /\ Constructed /\ IoIdle /\ F1Idle /\ FxIdle
      /\ SetUpIdle /\ RoundTripIdle /\ F1RegionIdle /\ WriteBucketsIdle

NextClassify ==
    \/ GenF1
    \/ \E id \in F1Jobs : F1Generate(id)
    \/ \E id \in F1Jobs : F1CalculatePrefixSum(id)
    \/ \E id \in F1Jobs : F1ControlThread(id)
    \/ \E id \in F1Jobs : F1WaitForRelease(id)
    \/ \E id \in F1Jobs : F1DistributeEntries(id)
    \/ \E id \in F1Jobs : F1CompressFirst(id)
    \/ \E id \in F1Jobs : F1CompressRest(id)
    \/ \E id \in F1Jobs : F1NextBucket(id)
    \/ GenFxBucketized
    \/ \E id \in FxJobs : FxRun(id)
    \/ \E id \in FxJobs : FxCompute(id)

SpecClassify == InitClassify /\ [][NextClassify]_vars

\* The queue with a producer that takes buffers from the work heap, hands
\* them to WriteFile commands and gives them back with ReleaseBuffer
\* commands: it commits a command only with its buffer written, and submits
\* one ReleaseBuffer for a buffer, after the commands that use it.
InitHeap ==
    QueueInit /\ HeapInit /\ Constructed /\ IoIdle /\ F1Idle /\ FxIdle
      /\ SetUpIdle /\ RoundTripIdle /\ F1RegionIdle /\ WriteBucketsIdle

\* The sizes the producer asks for: one block, and the whole heap.
HeapRequestSizes == { 1, HeapSize }

NextHeap ==
    \/ \E size \in HeapRequestSizes : GetBuffer(size)
    \/ PayloadsSet /\ HeldBuffers # { } /\ CommandsToSpare > 0
          /\ GetCommandObject("WriteFile")
    \/ PayloadsSet /\ HeldBuffers # { } /\ GetCommandObject("ReleaseBuffer")
    \/ WaitConsumed
    \/ RetryWrite
    \/ \E buffer \in 1..MaxLends : WriteFile(buffer)
    \/ \E buffer \in 1..MaxLends : ReleaseBuffer(buffer)
    \/ PayloadsSet /\ CommitCommands
    \/ SignalReady
    \/ CompletePendingReleases
    \/ WaitReady
    \/ Dequeue
    \/ DequeueRelease
    \/ SignalConsumed
    \/ ExecuteCommand

SpecHeap == InitHeap /\ [][NextHeap]_vars

\* The constructor alone.
InitCtor ==
    QueueInit /\ HeapInit /\ CtorStart /\ IoIdle /\ F1Idle /\ FxIdle
      /\ SetUpIdle /\ RoundTripIdle /\ F1RegionIdle /\ WriteBucketsIdle

NextCtor ==
    \/ \E ok \in BOOLEAN, blockSize \in FileBlockSizes, alloc \in BOOLEAN :
          InitFileSet(ok, blockSize, alloc)
    \/ RunDispatchThread

SpecCtor == InitCtor /\ [][NextCtor]_vars

\* The set-up of GenFxBucketized alone, for every entryCount and
\* threadCount of the model.
InitSetUp ==
    /\ QueueInit /\ HeapInit /\ Constructed /\ IoIdle /\ F1Idle /\ FxIdle
    /\ fxSetUp \in { GenFxSetUpStart(entryCount, threadCount) :
                       entryCount \in 0..MaxSetUpEntries,
                       threadCount \in 1..MaxSetUpThreads }
    /\ fxChunked = [ ChunkedStart(TRUE, 1, 0, FALSE, 0) EXCEPT !.pc = "idle" ]
    /\ RoundTripIdle /\ F1RegionIdle /\ WriteBucketsIdle

NextSetUp ==
    \/ GenFxSetUpJob
    \/ GenFxRunJobs

SpecSetUp == InitSetUp /\ [][NextSetUp]_vars

\* The plan of GenFxBucketizedChunked alone.
InitChunked ==
    /\ QueueInit /\ HeapInit /\ Constructed /\ IoIdle /\ F1Idle /\ FxIdle
    /\ fxSetUp = [ GenFxSetUpStart(0, 1) EXCEPT !.pc = "idle" ]
    /\ fxChunked \in
          { ChunkedStart(diskQueue, threadCount, chunkSize, directIO, entryCount) :
              diskQueue \in BOOLEAN, threadCount \in 1..MaxFxThreads,
              chunkSize \in ChunkSizes, directIO \in BOOLEAN,
              entryCount \in 0..MaxChunkEntries }
    /\ RoundTripIdle /\ F1RegionIdle /\ WriteBucketsIdle

NextChunked ==
    \/ ChunkedPlan
    \/ ChunkedWhile
    \/ ChunkedSetUpJobs

SpecChunked == InitChunked /\ [][NextChunked]_vars

\* A WriteFile, a SeekFile back to where the write began and a ReadFile of
\* the same size, on a file that is empty or holds one block, written at
\* its start or at its end.
InitRoundTrip ==
    /\ QueueInit /\ HeapInit /\ Constructed /\ IoIdle /\ F1Idle /\ FxIdle
    /\ SetUpIdle
    /\ rt \in { RoundTripStart(directIO, size, length, start) :
                   directIO \in BOOLEAN, size \in 0..RoundTripMaxSize,
                   length \in { 0, BlockSize }, start \in { 0, BlockSize } }
    /\ rt.start <= Len(rt.file)
    /\ F1RegionIdle /\ WriteBucketsIdle

NextRoundTrip ==
    \/ RoundTripWriteFile
    \/ RoundTripWriteLoop
    \/ RoundTripWriteBlock
    \/ RoundTripSeekFile
    \/ RoundTripReadFile
    \/ RoundTripReadLoop

SpecRoundTrip == InitRoundTrip /\ [][NextRoundTrip]_vars

\* The regions and the keystream of the jobs of GenF1, for every thread
\* count and every job.
InitRegion ==
    /\ QueueInit /\ HeapInit /\ Constructed /\ IoIdle /\ F1Idle /\ FxIdle
    /\ SetUpIdle /\ RoundTripIdle /\ WriteBucketsIdle
    /\ f1Region \in { F1RegionStart(threadCount, id) :
                         threadCount \in 1..MaxRegionThreads,
                         id \in 0..(MaxRegionThreads - 1) }
    /\ f1Region.id < f1Region.threadCount

NextRegion ==
    \/ F1RegionConstruct
    \/ F1RegionRound

SpecRegion == InitRegion /\ [][NextRegion]_vars

\* A WriteBuckets command from its submission to the end of its handler,
\* and the producer that goes on using its array.
InitWriteBuckets ==
    /\ QueueInit /\ HeapInit /\ Constructed /\ IoIdle /\ F1Idle /\ FxIdle
    /\ SetUpIdle /\ RoundTripIdle /\ F1RegionIdle
    /\ wb \in { WriteBucketsStart(sizes) : sizes \in [ IoBuckets -> IoSizes ] }

NextWriteBuckets ==
    \/ WriteBuckets
    \/ \E b \in IoBuckets, size \in IoSizes : WriteBucketsProducerStores(b, size)
    \/ WriteBucketsExecuted
    \/ WriteBucketsReadsSize

SpecWriteBuckets == InitWriteBuckets /\ [][NextWriteBuckets]_vars

\* The queue under the scheduling the threads get: the dispatch thread, once
\* it can take a step, takes it; a producer inside CommitCommands or woken
\* inside GetCommandObject finishes the call.  The producer is free never
\* to make another call.
FairSpec ==
    /\ Init
    /\ [][Next]_vars
    /\ WF_vars(Dispatcher)
    /\ WF_vars(SignalReady)
    /\ WF_vars(WaitConsumed \/ RetryWrite)

-----------------------------------------------------------------------------
(* Claims about the command queue *)

ExecutedIds == { executed[i].id : i \in 1..Len(executed) }

\* C1: the dispatcher executes the commands in the order in which the
\* producer claimed their slots: the i-th command executed is the i-th
\* command claimed, whatever the commits and the dequeue batches were.
C1_ExecutionFollowsClaimOrder ==
    \A i \in 1..Len(executed) : executed[i].id = i

\* A commit larger than one batch is being executed: the batch is full,
\* the rest of the commit is still in the ring.
C1_Witness ==
    /\ dpc = "exec"
    /\ cmdCount = CMD_BUF_SIZE
    /\ committedCount > 0
    /\ Len(executed) >= CMD_BUF_SIZE

\* C2: a fence is signalled only by the execution of its MemoryFence
\* command, exactly once, and by then every command claimed before it has
\* been executed.
C2_FenceAfterEarlierCommands ==
    \A f \in 1..MaxCmds :
        /\ fenceSignals[f] <= 1
        /\ fenceSignals[f] = 1 =>
             \E p \in 1..Len(executed) :
                 /\ executed[p] = [ id |-> f, type |-> "MemoryFence" ]
                 /\ { executed[q].id : q \in 1..(p - 1) } = 1..(f - 1)
        /\ [ id |-> f, type |-> "MemoryFence" ] \in Range(executed)
             => fenceSignals[f] = 1

\* A fence that follows other commands has been signalled.
C2_Witness ==
    \E f \in 2..MaxCmds : fenceSignals[f] = 1

\* The commands that are committed and not yet executed, oldest first: the
\* rest of the dispatcher's batch, then the committed slots of the ring.
BatchLeft ==
    IF dpc \in { "release", "consumed" } THEN commands
    ELSE IF dpc = "exec" THEN SubSeq(commands, ci, cmdCount)
    ELSE << >>

RingCommitted ==
    LET n == IF dpc = "release" THEN committedCount - cmdCount ELSE committedCount
    IN  [ i \in 1..n |-> ring[(readPosition + i - 1) % Capacity] ]

\* C3: what was executed, what is left of the batch and what is committed
\* in the ring are together exactly the committed commands, each once, as
\* they were filled; a claimed slot that is not committed is in none of them.
C3_CommittedExecutedOnce ==
    executed \o BatchLeft \o RingCommitted = SubSeq(filled, 1, committedIds)

\* A whole ring of commands has been executed and the ring has wrapped
\* around: the slot of an executed command holds a claimed, uncommitted one.
C3_Witness ==
    /\ Len(executed) >= Capacity
    /\ pendingCount > 0

\* C4: every committed command is eventually executed.
C4_CommittedEventuallyExecuted ==
    \A k \in 1..MaxCmds : (committedIds >= k) ~> (k \in ExecutedIds)

\* The window of a lost wake-up: commands are committed, the dispatcher
\* sleeps on the ready signal, and the producer has not signalled yet.
C4_Witness ==
    /\ dpc = "wait"
    /\ ~cmdReadySignal
    /\ committedCount > 0
    /\ ppc = "signal"

InGetCommandObject == ppc \in { "waiting", "retry" }

\* C5 as stated: a producer that found the queue full is eventually given
\* a slot, whatever calls it made before.
C5_BlockedProducerGetsSlot ==
    InGetCommandObject ~> (ppc = "idle")

\* C5, amended: a producer that found the queue full is eventually given a
\* slot if fewer than Capacity of the claimed slots are uncommitted.
C5_BlockedProducerGetsSlotIfCommitted ==
    (InGetCommandObject /\ pendingCount < Capacity) ~> (ppc = "idle")

\* The producer was woken by the consumed signal and finds a free slot.
C5_Witness ==
    /\ ppc = "retry"
    /\ QueueHasRoom
    /\ pendingCount < Capacity
    /\ pendingCount > 0

-----------------------------------------------------------------------------
(* The command handlers under direct I/O *)

\* C6: with direct I/O, every length passed to a file write and every file
\* offset at which a write or a read starts is a multiple of the block size,
\* after any sequence of WriteBuckets, WriteFile, ReadFile, SeekFile and
\* SeekBucket commands, partial writes included.
C6_DirectIOAligned ==
    useDirectIO =>
        /\ lastIo.kind = "write" => lastIo.len % BlockSize = 0
        /\ lastIo.kind \in { "write", "read" } => lastIo.offset % BlockSize = 0

\* The two ways the alignment is lost: the write loop goes on after a
\* partial write, and a write starts where a seek left the cursor.
C6_PartialWriteUnaligned ==
    ~( /\ useDirectIO
       /\ ioType = "WriteFile"
       /\ lastIo.kind = "write"
       /\ lastIo.src # 0
       /\ lastIo.len % BlockSize # 0 )

C6_SeekUnaligned ==
    ~( /\ useDirectIO
       /\ lastIo.kind = "write"
       /\ lastIo.src = 0
       /\ lastIo.len % BlockSize = 0
       /\ lastIo.offset % BlockSize # 0 )

-----------------------------------------------------------------------------
(* GenF1: the x ranges and the entries *)

\* C8: after GenF1 with any number of jobs, every x below 2^k was given to
\* exactly one job in exactly one round (and at no time to two), and the
\* counts of bucketCounts[0] add up to 2^k.
C8_EveryXOnceAndCountsAddUp ==
    /\ Cardinality(f1Assigned) = Cardinality({ a.x : a \in f1Assigned })
    /\ F1Done =>
          /\ { a.x : a \in f1Assigned } = 0..(F1TableEntryCount - 1)
          /\ SumUpTo(bucketCounts0, _numBuckets - 1) = F1TableEntryCount

\* GenF1 is over, run by jobs among which the bucket does not divide evenly.
C8_Witness ==
    /\ F1Done
    /\ f1ThreadCount > 1
    /\ _entriesPerBucket % f1ThreadCount # 0
    /\ \E a \in f1Assigned : a.job = f1ThreadCount - 1 /\ a.round > 0

\* nextX at the start of a round.
RECURSIVE F1NextX(_)
F1NextX(round) ==
    IF round = 0 THEN 0
    ELSE F1NextX(round - 1)
           + BucketEntryCount(F1TableEntryCount - F1NextX(round - 1))

\* The entries that job `id` of `threadCount` builds in a round.
F1EntriesOf(threadCount, id, round) ==
    LET bucketEntryCount ==
            BucketEntryCount(F1TableEntryCount - F1NextX(round))
        x == F1ThreadX(threadCount, id, F1NextX(round), bucketEntryCount)
        entriesPerThread == F1ThreadEntries(threadCount, id, bucketEntryCount)
    IN  F1JobEntries([ x |-> x,
                       entriesPerThread |-> entriesPerThread,
                       blocks |-> KeystreamBlocks(plotId, ChachaBlock(x),
                                                  BlockCount(entriesPerThread)) ])

\* The entries GenF1 builds when run by `threadCount` jobs.
F1ProducedBy(threadCount) ==
    UNION { F1EntriesOf(threadCount, id, round) :
              id \in 0..(threadCount - 1), round \in F1Buckets }

\* C9: for a plot id, k and bucket count, GenF1 produces the same set of
\* (bucket, y, x) entries whatever the number of jobs: the y of an x does not
\* depend on the job that made it or on where the x range of that job starts.
C9_EntriesSameForEveryThreadCount ==
    F1Done => \A threadCount \in 1..MaxF1Threads :
                  f1Produced = F1ProducedBy(threadCount)

\* What the run did produce is what its own number of jobs gives.
F1ProducedIsOwn == F1Done => f1Produced = F1ProducedBy(f1ThreadCount)

-----------------------------------------------------------------------------
(* GenFxBucketized: the bucket counts and the output of a stage *)

\* Every job made one pass of the chunk loop: what the fields nobody set
\* held asked for one chunk.
FxOnePass == \A id \in FxJobs : fxjob[id].chunk = 1

\* C7: for every bucket, the count the control thread adds up in the total
\* bucket counts of the stage is the number of entries, over all jobs and
\* chunks, that were classified into the bucket; the totals of all buckets
\* add up to the entry count of the stage.
C7_TotalsAreTheClassifiedEntries ==
    FxDone =>
        /\ \A b \in FxBuckets : totalBucketCounts[b] = fxClassified[b]
        /\ SumUpTo(totalBucketCounts, BB_DP_BUCKET_COUNT - 1) = MaxFxEntries

\* The same of the runs in which every job made one pass, and of the runs
\* of one job.
C7_OnePassTotals ==
    FxDone /\ FxOnePass =>
        \A b \in FxBuckets : totalBucketCounts[b] = fxClassified[b]

C7_OneJobTotals ==
    FxDone /\ FxOnePass /\ fxThreadCount = 1 =>
        /\ \A b \in FxBuckets : totalBucketCounts[b] = fxClassified[b]
        /\ SumUpTo(totalBucketCounts, BB_DP_BUCKET_COUNT - 1) = MaxFxEntries

\* The values of f over D with the number of times each occurs: a multiset.
BagOf(f, D) == { << f[d], Cardinality({ e \in D : f[e] = f[d] }) >> : d \in D }

\* Where the entries of a bucket start in the output buffers: behind the
\* padded totals of the buckets before it.
FxBucketStart(b) ==
    SumUpTo([ c \in FxBuckets |->
                IF fxFileBlockSize # 0 /\ c < BB_DP_BUCKET_COUNT - 1
                  THEN FxRoundUp(totalBucketCounts[c])
                  ELSE totalBucketCounts[c] ], b - 1)

\* The output of the stage: the records of a bucket, as a multiset.
FxOutput(b) ==
    BagOf(fxOut, { d \in 0..(FxOutLen - 1) :
                     /\ FxBucketStart(b) <= d
                     /\ d < FxBucketStart(b) + totalBucketCounts[b] })

\* What one job gives that goes through the pairs of the input once: the
\* records DistributeIntoBuckets takes from yTmp and metaTmpA (for table 7
\* from yTmp alone), in the bucket ComputeFxForTable found for the pair.
FxOutputOfOneJob(b) ==
    BagOf([ i \in 0..(MaxFxEntries - 1) |->
              [ y |-> fxTmp[i].y,
                meta |-> IF fxTable = "Table7" THEN << -1, -1 >>
                         ELSE fxTmp[i].meta ] ],
          { i \in 0..(MaxFxEntries - 1) :
              ComputeFx(fxBucketIdx, fxPairs[i + 1]).bucket = b })

\* C10: for a fixed input bucket (pairs, y, meta) the output of a stage,
\* taken per bucket as a multiset of records, is the same for every number
\* of jobs and every interleaving of the jobs.
C10_OutputSameForEveryRun ==
    FxDone => \A b \in FxBuckets : FxOutput(b) = FxOutputOfOneJob(b)

\* The same of the runs in which every job made one pass, and of the runs
\* of one job.
C10_OnePassOutput ==
    FxDone /\ FxOnePass => \A b \in FxBuckets : FxOutput(b) = FxOutputOfOneJob(b)

C10_OneJobOutput ==
    FxDone /\ FxOnePass /\ fxThreadCount = 1 =>
        \A b \in FxBuckets : FxOutput(b) = FxOutputOfOneJob(b)

-----------------------------------------------------------------------------
(* The bucket of an entry *)

\* C11: every entry is classified into the bucket that the leading log2(B)
\* bits of its full y' name: for an Fx table the bits above the ones yOut
\* keeps, for the final table the leading bits of the y' yOut keeps whole,
\* for F1 the leading bits of the emitted y; the bucket id is below B.
C11_BucketIsLeadingBitsOfY ==
    /\ \A c \in fxComputed :
          /\ c.fx < 2 ^ FxYSize(fxTable)
          /\ c.bucket = c.fx \div (2 ^ (FxYSize(fxTable) - FxBucketBits))
          /\ c.bucket \in FxBuckets
    /\ \A e \in f1Produced :
          /\ e.y < 2 ^ F1YBitSize
          /\ e.bucket = e.y \div (2 ^ (F1YBitSize - F1LogBuckets))
          /\ e.bucket \in F1Buckets

\* A job of a stage of table 2 put a y' into the last bucket: the bits
\* yOut keeps of it are not the full y'.
C11_Witness ==
    /\ fxTable = "Table2"
    /\ \E c \in fxComputed : c.bucket = BB_DP_BUCKET_COUNT - 1 /\ c.fx # c.y

\* The other two cases are reached as well: a y' of the final table in the
\* last bucket, and GenF1 over with entries in its last bucket.
C11_FinalTableReached ==
    ~( /\ fxTable = "Table7"
       /\ \E c \in fxComputed : c.bucket = BB_DP_BUCKET_COUNT - 1 /\ c.fx = c.y )

C11_F1Reached ==
    ~( /\ F1Done
       /\ \E e \in f1Produced : e.bucket = _numBuckets - 1 )

-----------------------------------------------------------------------------
(* The work heap and the buffers of the commands *)

\* The stage is over: the producer has submitted a ReleaseBuffer for every
\* buffer it was lent, every command it submitted was executed, and the
\* pending releases were completed.
StageComplete ==
    /\ PayloadsSet
    /\ HeldBuffers = { }
    /\ Len(executed) = issued
    /\ HeapPendingReleases = << >>

\* C12: when a stage is over, all its ReleaseBuffer commands executed and
\* the pending releases completed, the free list of the heap is one span,
\* the whole arena.
C12_HeapWholeAfterStage == StageComplete => heapFree = { HeapArena }

\* A stage is over that held two buffers side by side and released the
\* second one first.
C12_Witness ==
    /\ StageComplete
    /\ Len(heapLent) = 2
    /\ heapLent[1].addr # heapLent[2].addr
    /\ HeapReleased[1] = 2

\* The positions in `executed` of the ReleaseBuffer commands of a buffer.
ReleasesOf(b) ==
    { i \in 1..Len(executed) :
        executed[i].type = "ReleaseBuffer" /\ cmdBuffer[executed[i].id] = b }

\* The blocks of a lent buffer are back in the heap: in a free span, or in
\* a buffer lent after it.
Returned(b) ==
    \/ \E s \in heapFree : SpanBlocks(s) \cap SpanBlocks(heapLent[b]) # { }
    \/ \E c \in (b + 1)..Len(heapLent) :
          SpanBlocks(heapLent[c]) \cap SpanBlocks(heapLent[b]) # { }

\* C13: a lent buffer is released once, by the dispatch thread executing
\* its ReleaseBuffer command, and its blocks go back to the heap only then;
\* the release comes after every command submitted before it that uses the
\* buffer was executed, so no WriteFile is executed, or waits to be, on a
\* buffer that is back in the heap.
C13_ReleasedOnceAfterUse ==
    /\ \A b \in 1..Len(heapLent) :
          /\ Cardinality(ReleasesOf(b)) <= 1
          /\ StageComplete => Cardinality(ReleasesOf(b)) = 1
          /\ Returned(b) => ReleasesOf(b) # { }
    /\ \A i \in 1..Len(executed) :
          executed[i].type = "WriteFile" =>
              \A j \in ReleasesOf(cmdBuffer[executed[i].id]) : i < j
    /\ \A id \in 1..Len(cmdBuffer) :
          filled[id].type = "WriteFile" /\ id \notin ExecutedIds =>
              ~Returned(cmdBuffer[id])

\* A buffer was written, released and its blocks lent again.
C13_Witness ==
    /\ Len(heapLent) = 2
    /\ SpanBlocks(heapLent[1]) \cap SpanBlocks(heapLent[2]) # { }
    /\ \E i \in 1..Len(executed) :
          executed[i].type = "WriteFile" /\ cmdBuffer[executed[i].id] = 1

-----------------------------------------------------------------------------
(* WriteFile under direct I/O *)

\* A WriteFile command is being executed under direct I/O.
DirectWriteFile == useDirectIO /\ ioType = "WriteFile"

\* The S-floor of the size of the command being executed.
IoFloor == (ioSize \div BlockSize) * BlockSize

\* What holds while WriteToFile runs for a WriteFile: the bytes taken from
\* ptr so far and the bytes still to take make the S-floor of size, the
\* file has taken the bytes from ptr one after the other, and the
\* remainder is size mod S.
C14_LeadingBytes ==
    DirectWriteFile /\ ioPc \in { "write", "block" } =>
        /\ ioSrc + ioLeft = IoFloor
        /\ ioRemainder = ioSize % BlockSize
        /\ filePos[ioBucket] = ioStart[ioBucket] + ioSrc
        /\ lastIo.kind = "write" => lastIo.from = "buffer"
        /\ ioPc = "block" => ioLeft = 0 /\ ioRemainder # 0

\* The steps of WriteToFile for a WriteFile: writes from ptr until the
\* floor is written, then one write of the block buffer when size mod S is
\* not zero, and the end of the command without another write when it is.
C14_Steps ==
    DirectWriteFile =>
        /\ ioPc = "write" /\ ioLeft > 0 =>
              /\ lastIo'.kind = "write"
              /\ lastIo'.from = "buffer"
              /\ lastIo'.src = ioSrc
              /\ lastIo'.len = ioLeft
        /\ ioPc = "write" /\ ioLeft = 0 /\ ioRemainder # 0 => ioPc' = "block"
        /\ ioPc = "write" /\ ioLeft = 0 /\ ioRemainder = 0 =>
              ioPc' = "idle" /\ lastIo' = NoIo /\ filePos' = filePos
        /\ ioPc = "block" =>
              /\ lastIo'.kind = "write"
              /\ lastIo'.from = "blockBuffer"
              /\ lastIo'.len = BlockSize
              /\ lastIo'.src = IoFloor
              /\ lastIo'.copied = ioSize % BlockSize
              /\ lastIo'.offset = ioStart[ioBucket] + IoFloor
              /\ ioPc' \in { "idle", "fatal" }

\* C14, as the code has it: under direct I/O, executing WriteFile( fileId,
\* bucket, ptr, size ) writes the floor(size/S)*S leading bytes directly
\* from ptr and then, when size mod S is not zero, issues one write of an
\* S-sized block from the block buffer, which holds the trailing size mod S
\* bytes followed by zeros; when size is a multiple of S it writes no block.
C14_FloorThenBlockOfRemainder == []C14_LeadingBytes /\ [][C14_Steps]_vars

\* C14, as the spec has it: the extra block is written after the leading
\* bytes of every WriteFile.
C14_FloorThenBlock ==
    [][DirectWriteFile /\ ioPc = "write" /\ ioLeft = 0 => ioPc' = "block"]_vars

\* A WriteFile of more than a block that is not a multiple of S has written
\* its block.
C14_Witness ==
    /\ useDirectIO
    /\ ioPc = "idle"
    /\ lastIo.from = "blockBuffer"
    /\ lastIo.err = 0
    /\ lastIo.src >= BlockSize
    /\ lastIo.copied > 0
    /\ lastIo.copied < BlockSize

\* A WriteFile of a whole block has ended without a block of the block
\* buffer.
C14_WholeBlocksReached ==
    ~( /\ DirectWriteFile
       /\ ioPc = "write"
       /\ ioLeft = 0
       /\ ioSrc = BlockSize
       /\ ioRemainder = 0 )

-----------------------------------------------------------------------------
(* WriteBuckets *)

\* What the claim has CmdWriteBuckets write of bucket buffer i, and the
\* distance from bucket buffer i to the next one.
C15_Written(i) ==
    IF useDirectIO THEN ioSizes[i] - (ioSizes[i] % BlockSize) ELSE ioSizes[i]

C15_Advance(i) ==
    IF useDirectIO /\ ioSizes[i] % BlockSize # 0
      THEN ioSizes[i] + BlockSize - (ioSizes[i] % BlockSize)
      ELSE ioSizes[i]

C15_AdvanceUpTo(i) ==
    LET RECURSIVE S(_)
        S(j) == IF j = 0 THEN 0 ELSE S(j - 1) + C15_Advance(j - 1)
    IN  S(i)

\* C15: executing WriteBuckets writes, for the buckets in increasing
\* order, a region to the file of each bucket: without direct I/O sizes[i]
\* bytes, with direct I/O floor(sizes[i]/S)*S bytes and no block of the
\* block buffer; the source pointer then moves on by sizes[i], rounded up to
\* a multiple of S under direct I/O.
C15_BucketsWrittenInOrder ==
    ioType = "WriteBuckets" /\ ioPc # "fatal" =>
        /\ ioPc \in { "bucket", "write" }
        /\ ioBase = C15_AdvanceUpTo(ioBucket)
        /\ \A j \in IoBuckets :
              /\ j < ioBucket => filePos[j] = ioStart[j] + C15_Written(j)
              /\ j > ioBucket => filePos[j] = ioStart[j]
        /\ ioPc = "bucket" /\ ioBucket \in IoBuckets =>
              filePos[ioBucket] = ioStart[ioBucket]
        /\ ioPc = "write" =>
              /\ ioRemainder = 0
              /\ ioSrc + ioLeft = ioBase + C15_Written(ioBucket)
              /\ filePos[ioBucket] = ioStart[ioBucket] + (ioSrc - ioBase)
        /\ lastIo.kind = "write" => lastIo.from = "buffer"

\* Under direct I/O a WriteBuckets is over whose sizes are not all
\* multiples of S, one of them longer than a block.
C15_Witness ==
    /\ useDirectIO
    /\ ioType = "WriteBuckets"
    /\ ioPc = "bucket"
    /\ ioBucket = BB_DP_BUCKET_COUNT
    /\ \E j \in IoBuckets : ioSizes[j] > BlockSize /\ ioSizes[j] % BlockSize # 0
    /\ \E j \in IoBuckets : ioSizes[j] = BlockSize

\* A WriteBuckets without direct I/O is over.
C15_BufferedReached ==
    ~( /\ ~useDirectIO
       /\ ioType = "WriteBuckets"
       /\ ioPc = "bucket"
       /\ ioBucket = BB_DP_BUCKET_COUNT
       /\ \E j \in IoBuckets : ioSizes[j] % BlockSize # 0 )

-----------------------------------------------------------------------------
(* Failing file streams *)

\* The process has ended in Fatal: the report names the file set of the
\* command, the bucket of the file whose call failed and the error code
\* that file reported. Without a failed call there is no report.
C16_Report ==
    /\ ioPc = "fatal" =>
          /\ lastIo.kind \in { "write", "read", "seek" }
          /\ lastIo.err \in ErrorCodes
          /\ ioReport.name = FileSetNames[IoFileId]
          /\ ioReport.bucket = lastIo.bucket
          /\ ioReport.err = lastIo.err
          /\ ioType # "None" => ioReport.bucket = ioBucket
    /\ ioPc # "fatal" => ioReport = NoReport /\ lastIo.err = 0

\* A step of the dispatcher: a call that fails ends the process, and
\* nothing is executed once the process has ended.
C16_Steps ==
    /\ ioPc # "fatal"
    /\ lastIo'.err # 0 => ioPc' = "fatal"

C16_ReadFailed == ~(ioPc = "fatal" /\ lastIo.kind = "read" /\ ioReport.bucket > 0)

C16_SeekFailed == ~(ioPc = "fatal" /\ lastIo.kind = "seek" /\ ioReport.bucket > 0)

-----------------------------------------------------------------------------
(* Construction *)

\* The reports of the files opened so far that end the construction: a
\* file that did not open, a block size below 2, a block size that is not
\* the first file's.
C17_BadReports ==
    { i \in 1..Len(opened) :
        \/ ~opened[i].ok
        \/ opened[i].blockSize < 2
        \/ opened[i].blockSize # opened[1].blockSize }

\* C17: the construction ends with the dispatch thread started only if
\* every bucket file of every file set opened and all of them reported one
\* block size S >= 2; after a file that did not open, or reported a block
\* size below 2 or another one than the first file's, the process has
\* ended and the dispatch thread is not started.
C17_ConstructedOnlyWithOneBlockSize ==
    /\ dispatchRunning =>
          /\ Len(opened) = FileCount
          /\ C17_BadReports = { }
          /\ _blockSize = opened[1].blockSize
          /\ _blockSize >= 2
    /\ C17_BadReports # { } => ctorPc = "fatal" /\ ~dispatchRunning
    /\ ctorPc = "fatal" => ~dispatchRunning

\* The queue is constructed over files of a block size above 2.
C17_Witness ==
    /\ dispatchRunning
    /\ ctorPc = "done"
    /\ _blockSize > 2
    /\ Len(opened) = FileCount

\* The last file of the last file set reported another block size; the
\* first file reported a block size of 1; a file of a later file set did
\* not open.
C17_LastFileDiffers ==
    ~( /\ ctorPc = "fatal"
       /\ Len(opened) = FileCount
       /\ opened[FileCount].ok
       /\ opened[FileCount].blockSize >= 2 )

C17_FirstFileBelowTwo ==
    ~(ctorPc = "fatal" /\ Len(opened) = 1 /\ opened[1].ok /\ opened[1].blockSize < 2)

C17_LaterFileNotOpened ==
    ~(ctorPc = "fatal" /\ Len(opened) > BB_DP_BUCKET_COUNT /\ ~opened[Len(opened)].ok)

-----------------------------------------------------------------------------
(* The bit stream GenF1 writes through the BitBucketWriter *)

\* The bits of a write of GenF1: from the bit offset it asked its writer
\* for, count entries of entrySizeBits bits each.
C18_Bits(w) == w.bitOffset..(w.bitOffset + w.count * entrySizeBits - 1)

\* C18: the bytes submitted for a bucket are the bit stream of the entries
\* written to that bucket, so that reading them back yields the entries.
\* For the writes of GenF1 this needs every job to write the entries of
\* bucket i through the writer of bucket i, and no two writes of a round to
\* put their entries on the same bits of a bucket.
C18_WritesFormTheEntryStream ==
    \A w \in f1Writes :
        /\ w.bucket = w.i
        /\ \A v \in f1Writes :
              v # w /\ v.round = w.round /\ v.bucket = w.bucket =>
                  C18_Bits(v) \cap C18_Bits(w) = { }

\* The same windows counted in entries: the entries the jobs write in a
\* round lie side by side in _entries, one window for each job and bucket.
C18_EntryWindowsDisjoint ==
    \A w \in f1Writes : \A v \in f1Writes :
        v # w /\ v.round = w.round =>
            LET a == w.bitOffset \div 8
                b == v.bitOffset \div 8
            IN  a + w.count <= b \/ b + v.count <= a

-----------------------------------------------------------------------------
(* The scatter of DistributeIntoBuckets *)

\* The jobs are in their first pass, this job in its scatter loop, about
\* to write an entry.
FxScatters(id) ==
    /\ \A t \in FxJobs : fxjob[t].chunk = 0
    /\ fxjob[id].pc = "distribute"
    /\ fxjob[id].i < fxjob[id].entryCount
    /\ fxjob'[id] # fxjob[id]

\* The bucket of the entry the job is about to write, and the index it
\* writes it to.
FxScatterBucket(id) == fxBucketIdOut[fxjob[id].i]

FxScatterIndex(id) == fxjob[id].pfxSum[FxScatterBucket(id)] - 1

\* The entries the jobs up to job w counted for bucket b, and the entries
\* all jobs counted for it.
FxCountedUpTo(w, b) == SumUpTo([ t \in FxJobs |-> fxjob[t].counts[b] ], w)

FxCounted(b) == FxCountedUpTo(fxThreadCount - 1, b)

\* The entries of a block of the file.
FxBlockEntries == fxFileBlockSize \div FxEntrySize

\* The range of a bucket with its padding, and where the range starts.
FxPaddedCount(b) ==
    IF fxFileBlockSize = 0 THEN FxCounted(b)
    ELSE ((FxCounted(b) + FxBlockEntries - 1) \div FxBlockEntries) * FxBlockEntries

FxRangeStart(b) == SumUpTo([ c \in FxBuckets |-> FxPaddedCount(c) ], b - 1)

\* The window of job w in bucket b: behind the windows of the jobs before
\* it, as long as its count.
FxWindow(w, b) ==
    { d \in 0..(FxOutLen - 1) :
        /\ FxRangeStart(b) + FxCountedUpTo(w - 1, b) <= d
        /\ d < FxRangeStart(b) + FxCountedUpTo(w, b) }

\* C19: in the scatter the windows of the workers in a bucket lie side by
\* side in the order of the worker ids and make up the range of the bucket;
\* a worker writes the entries it counted for a bucket, each of them
\* inside its own window, so no two workers write the same index.
C19_ScatterInsideOwnWindow ==
    [][\A id \in FxJobs :
          FxScatters(id) =>
              FxScatterIndex(id) \in FxWindow(id, FxScatterBucket(id))]_vars

\* The same of the runs of one job.
C19_OneJobScatter ==
    [][\A id \in FxJobs :
          FxScatters(id) /\ fxThreadCount = 1 =>
              FxScatterIndex(id) \in FxWindow(id, FxScatterBucket(id))]_vars

\* C20: with a file block size S, the first entry of every bucket is
\* scattered to an index whose byte offset is a multiple of S, and the
\* entries of the bucket lie side by side from there, the padding behind
\* them: an entry of bucket b is written at the aligned start of b or
\* behind it, before the padding of b.
C20_ScatterFromAlignedStart ==
    [][\A id \in FxJobs :
          FxScatters(id) /\ fxFileBlockSize # 0 =>
              LET b == FxScatterBucket(id)
              IN  /\ (FxRangeStart(b) * FxEntrySize) % fxFileBlockSize = 0
                  /\ FxRangeStart(b) <= FxScatterIndex(id)
                  /\ FxScatterIndex(id) < FxRangeStart(b) + FxCounted(b)]_vars

\* The same of the runs of one job.
C20_OneJobScatter ==
    [][\A id \in FxJobs :
          FxScatters(id) /\ fxFileBlockSize # 0 /\ fxThreadCount = 1 =>
              LET b == FxScatterBucket(id)
              IN  /\ (FxRangeStart(b) * FxEntrySize) % fxFileBlockSize = 0
                  /\ FxRangeStart(b) <= FxScatterIndex(id)
                  /\ FxScatterIndex(id) < FxRangeStart(b) + FxCounted(b)]_vars

\* One job wrote an entry of the last bucket behind the padding of the
\* bucket before it.
C20_OneJobReached ==
    ~( /\ fxThreadCount = 1
       /\ fxFileBlockSize # 0
       /\ fxjob[0].pc = "totals"
       /\ fxjob[0].counts[0] = 1
       /\ fxjob[0].counts[BB_DP_BUCKET_COUNT - 1] = 1
       /\ fxjob[0].pfxSum[BB_DP_BUCKET_COUNT - 1] = FxBlockEntries )


-----------------------------------------------------------------------------
(* The y fed to the hash *)

\* The extended y of the spec: the bucket index above the bits of a stored
\* y, which are the bits yOut keeps of a y'.
FxExtendedY(b, y) == b * (2 ^ FxYOutBits) + y

\* C21: for each pair of input bucket b, the y fed to the hash is the
\* extended y, ( b << k_bits ) | y[L]: the bucket index lies above the
\* stored bits of y[L] and never overlaps them.
C21_HashInputIsExtendedY ==
    \A c \in fxComputed :
        /\ c.yIn < 2 ^ FxYOutBits
        /\ c.input = FxExtendedY(fxBucketIdx, c.yIn)

\* What the hash is fed instead: the bucket index itself or-ed into the low
\* bits of y[L].
C21_HashInputIsBucketOrY ==
    \A c \in fxComputed : c.input = BitOr(fxBucketIdx, c.yIn)

\* A pair whose y[L] has the lowest bit set went through: the bucket index
\* of the model, 1, is lost in it.
C21_OverlapReached ==
    ~( \E c \in fxComputed : c.yIn % 2 = 1 /\ c.input = c.yIn )


-----------------------------------------------------------------------------
(* The keystream range of a job of GenF1 *)

\* The jobs that have generated the keystream of their round.
F1Generated == { id \in F1Jobs : f1job[id].pc \notin { "idle", "generate", "done" } }

\* The first x of round b: the rounds before it took _entriesPerBucket
\* entries each.
F1StartX(b) == b * _entriesPerBucket

\* C22: in each round for bucket b, worker i starts its keystream at block
\* counter ( startX_b + i * ( E_b / T ) ) / entriesPerBlock and generates
\* ceil( entries_i / entriesPerBlock ) blocks, with entriesPerBlock =
\* floor( blockBits / k ).
C22_KeystreamStartsAtEntryBlock ==
    \A id \in F1Generated :
        LET job == f1job[id]
            E   == BucketEntryCount(job.tableEntryCount)
            x   == F1StartX(job.bucket) + id * (E \div f1ThreadCount)
        IN  /\ entriesPerBlock = kF1BlockSizeBits \div _K
            /\ job.x = x
            /\ job.chachaBlock = x \div entriesPerBlock
            /\ job.blockCount = CDivT(job.entriesPerThread, entriesPerBlock)

\* What holds of the code: the first x and the number of blocks are the
\* claim's, and the block counter is x over the bytes of a block.
C22_KeystreamStartsAtByteBlock ==
    \A id \in F1Generated :
        LET job == f1job[id]
            E   == BucketEntryCount(job.tableEntryCount)
            x   == F1StartX(job.bucket) + id * (E \div f1ThreadCount)
        IN  /\ job.x = x
            /\ job.chachaBlock = x \div kF1BlockSize
            /\ job.blockCount = CDivT(job.entriesPerThread, entriesPerBlock)


-----------------------------------------------------------------------------
(* The packed record of an F1 entry *)

\* The fields of a packed record: y in the low k + kExtraBits bits, x above
\* them.
F1UnpackY(word) == word % (2 ^ F1YBitSize)

F1UnpackX(word) == word \div (2 ^ F1YBitSize)

\* The entries the jobs have stored in `entries`.
F1Stored == { f1Entries[e] : e \in DOMAIN f1Entries } \ { NoEntry }

\* C23: each F1 record pairs the emitted y, k + kExtraBits bits wide, with
\* its x in a packed record of k + ( k + kExtraBits ) bits, and both the
\* full x and the full y can be recovered from the record, for every x
\* below 2^k.
C23_RecordHoldsXAndY ==
    \A e \in F1Stored :
        /\ e.x \in 0..(2 ^ TableBits - 1)
        /\ e.y \in 0..(2 ^ F1YBitSize - 1)
        /\ entrySizeBits = TableBits + F1YBitSize
        /\ F1UnpackY(e.word) = e.y
        /\ F1UnpackX(e.word) = e.x

\* What holds of the code: the record keeps the whole y, and of x the bits
\* the word has left above y.
C23_RecordHoldsYAndLowBitsOfX ==
    \A e \in F1Stored :
        /\ F1UnpackY(e.word) = e.y
        /\ F1UnpackX(e.word) = e.x % (2 ^ (F1WordBits - F1YBitSize))

\* The smallest x that is not recovered is stored: the first one that does
\* not fit into the bits left above y.
C23_LostXReached ==
    ~( \E e \in F1Stored : e.x = 2 ^ (F1WordBits - F1YBitSize) )


-----------------------------------------------------------------------------
(* The barriers of a distribution round *)

\* Job t has published the counts of the round in which job id is past the
\* barrier of CalculatePrefixSum: it has passed that barrier too, or waits
\* at it.
FxPublished(t, id) ==
    \/ fxjob[t].syncs >= fxjob[id].syncs
    \/ fxjob[t].syncs = fxjob[id].syncs - 1 /\ fxjob[t].pc = "sync"

\* Job t has computed its start offsets of the round job id is in: it is
\* past that barrier and no longer in CalculatePrefixSum of the round.
FxStartsComputed(t, id) ==
    /\ fxjob[t].syncs >= fxjob[id].syncs
    /\ fxjob[t].syncs = fxjob[id].syncs =>
          fxjob[t].pc \notin { "sum", "subtract" }

\* The first barrier: a job reads the counts of the others only when all of
\* them have published theirs.
C24_CountsPublishedBeforeRead ==
    \A id \in FxJobs : fxjob[id].pc \in { "sum", "subtract" } =>
        \A t \in FxJobs : FxPublished(t, id)

\* C24: in every distribution round each worker passes two barriers: one
\* after publishing its counts and before any worker reads the counts of
\* another, and one after all workers have computed their start offsets and
\* before any worker begins to scatter.
C24_TwoBarriers ==
    /\ C24_CountsPublishedBeforeRead
    /\ \A id \in FxJobs : fxjob[id].pc = "distribute" =>
          \A t \in FxJobs : FxStartsComputed(t, id)

\* A job is through its scatter loop and back from DistributeIntoBuckets
\* while another has not yet read the counts it needs.
C24_ReturnedBeforeOthersReadReached ==
    ~( \E id, t \in FxJobs :
          /\ fxjob[id].pc = "totals"
          /\ fxjob[t].syncs = fxjob[id].syncs
          /\ fxjob[t].pc = "sum" )


-----------------------------------------------------------------------------
(* The dispatcher as a state machine *)

\* The states of the spec: Idle is the wait for the ready signal, Draining
\* the dequeue with the consumed signal, Executing the loop over the batch.
DispatcherIdle == dpc = "wait"

DispatcherDraining == dpc \in { "dequeue", "release", "consumed" }

DispatcherExecuting == dpc = "exec"

\* The dispatcher is in one of the three states, and outside Idle it always
\* has a next step: there is no state it ends in.
C25_States ==
    /\ DispatcherIdle \/ DispatcherDraining \/ DispatcherExecuting
    /\ ~DispatcherIdle => ENABLED Dispatcher

C25_Steps ==
    \* Idle is left only on the ready signal, which the wait takes.
    /\ DispatcherIdle /\ ~DispatcherIdle' =>
          cmdReadySignal /\ ~cmdReadySignal' /\ dpc' = "dequeue"
    \* A dequeue that finds no committed command goes back to Idle; one that
    \* finds some copies the batch out of the ring.
    /\ dpc = "dequeue" /\ dpc' # "dequeue" =>
          IF committedCount = 0
            THEN DispatcherIdle' /\ cmdCount' = 0
            ELSE /\ dpc' = "release"
                 /\ cmdCount' = Min(CMD_BUF_SIZE, committedCount)
                 /\ commands' = [ i \in 1..cmdCount' |->
                                    ring[(readPosition + i - 1) % Capacity] ]
    /\ DispatcherIdle' /\ ~DispatcherIdle => dpc = "dequeue"
    /\ dpc = "release" /\ dpc' # "release" =>
          dpc' = "consumed" /\ commands' = commands /\ cmdCount' = cmdCount
    \* The consumed signal: once for the batch, after the copy and before
    \* the first command of the batch is executed, and nowhere else.
    /\ dpc = "consumed" /\ dpc' # "consumed" =>
          /\ DispatcherExecuting'
          /\ cmdConsumedSignal'
          /\ cmdCount > 0 /\ commands' = commands /\ ci' = 1
          /\ executed' = executed
    /\ cmdConsumedSignal' /\ ~cmdConsumedSignal => dpc = "consumed"
    /\ DispatcherExecuting' /\ ~DispatcherExecuting => dpc = "consumed"
    \* Only the executing state executes, and it executes the batch.
    /\ executed' # executed =>
          /\ DispatcherExecuting /\ DispatcherExecuting'
          /\ ci \in 1..cmdCount
          /\ executed' = Append(executed, commands[ci])
    \* After the batch the dispatcher drains again.
    /\ DispatcherExecuting /\ ~DispatcherExecuting' =>
          dpc' = "dequeue" /\ ci = cmdCount + 1

-----------------------------------------------------------------------------
(* The bit-cursors of the jobs of GenF1 *)

\* The writes of the round the jobs are in, all of them past its counts.
F1WritesOfRound ==
    { w \in f1Writes :
        \A t \in F1Jobs : /\ f1job[t].bucket = w.round
                          /\ f1job[t].pc \notin { "idle", "generate", "done" } }

\* The entries of bucket i that belong to the jobs below job id, in the
\* round the jobs are in.
F1LowerCount(id, i) ==
    SumUpTo([ t \in F1Jobs |-> IF t < id THEN f1job[t].counts[i] ELSE 0 ],
            f1ThreadCount - 1)

\* The bucket an entry was classified into: the leading bits of its y.
F1EntryBucket(e) == e.y \div (2 ^ (F1YBitSize - F1LogBuckets))

\* C26: the entries a worker classified into bucket i are written through
\* the bit-cursor of bucket i, at a bit offset inside the current write of
\* bucket i that equals the number of bucket-i entries of the lower-id
\* workers in this round times the entry bit size; no entry is written
\* into the buffer of a bucket other than the one it was classified into.
C26_CursorOfOwnBucket ==
    \A w \in F1WritesOfRound :
        /\ w.bucket = w.i
        /\ w.bitOffset = F1LowerCount(w.job, w.i) * entrySizeBits
        /\ \A k \in 1..Len(w.entries) : F1EntryBucket(w.entries[k]) = w.bucket

\* What holds of the code: the cursor is that of the bucket of the round,
\* its offset the index of the job's window in `entries`, behind all
\* entries of the lower buckets, times 8; the entries written in pass i are
\* those classified into bucket i.
C26_CursorOfRoundAtEntryIndex ==
    \A w \in F1WritesOfRound :
        /\ w.bucket = w.round
        /\ w.bitOffset =
              ( (IF w.i = 0 THEN 0 ELSE SumUpTo(F1TotalCounts, w.i - 1))
                  + F1LowerCount(w.job, w.i) ) * 8
        /\ \A k \in 1..Len(w.entries) : F1EntryBucket(w.entries[k]) = w.i

\* A job has written entries of the last bucket through the cursor of the
\* first.
C26_OtherBucketReached ==
    ~( \E w \in F1WritesOfRound :
          /\ w.bucket = 0
          /\ w.i = _numBuckets - 1
          /\ Len(w.entries) = w.count
          /\ \A k \in 1..Len(w.entries) :
                F1EntryBucket(w.entries[k]) = _numBuckets - 1 )


-----------------------------------------------------------------------------
(* The slices of the jobs of GenFxBucketized *)

\* The slice of input pairs of a job that was set up: from job.pairs, as
\* many as job.entryCount.
FxSlice(job) == job.pairs..(job.pairs + job.entryCount - 1)

\* C28: GenFxBucketized splits the entryCount input pairs among the T
\* workers into contiguous, pairwise disjoint slices that together cover
\* [0, entryCount): the entry counts of the workers sum to entryCount and
\* differ by at most one, and the slice of worker i starts where the slice
\* of worker i-1 ends.
C28_SlicesCoverTheInput ==
    LET jobs == fxSetUp.jobs
        T    == Len(jobs)
    IN  \* the jobs set up so far
        /\ \A i \in 1..T :
              /\ jobs[i].pairs = IF i = 1 THEN 0
                                 ELSE jobs[i - 1].pairs + jobs[i - 1].entryCount
              /\ jobs[i].yTmp = jobs[i].pairs
              /\ \A j \in 1..T : jobs[i].entryCount - jobs[j].entryCount \in -1..1
              /\ \A j \in 1..T : i # j => FxSlice(jobs[i]) \cap FxSlice(jobs[j]) = { }
        \* all jobs, when they are run
        /\ fxSetUp.pc = "run" =>
              /\ T = fxSetUp.threadCount
              /\ SumUpTo([ i \in 0..(T - 1) |-> jobs[i + 1].entryCount ], T - 1)
                    = fxSetUp.entryCount
              /\ UNION { FxSlice(jobs[i]) : i \in 1..T }
                    = 0..(fxSetUp.entryCount - 1)
              /\ \A i \in 1..T :
                    /\ jobs[i].entryCount =
                          FxJobEntryCount(fxSetUp.entryCount, T, i - 1)
                    /\ jobs[i].pairs = FxJobOffset(fxSetUp.entryCount, T, i - 1)

\* Three jobs are run on eight pairs: the division leaves two, and the
\* last job has one entry less than the first.
C28_Witness ==
    /\ fxSetUp.pc = "run"
    /\ fxSetUp.threadCount = 3
    /\ fxSetUp.entryCount = 8
    /\ fxSetUp.jobs[1].entryCount = 3
    /\ fxSetUp.jobs[3].entryCount = 2

\* More jobs than pairs: the last jobs are run with an empty slice.
C28_EmptySliceReached ==
    ~( /\ fxSetUp.pc = "run"
       /\ fxSetUp.entryCount < fxSetUp.threadCount
       /\ fxSetUp.jobs[fxSetUp.threadCount].entryCount = 0 )


-----------------------------------------------------------------------------
(* The chunk plan of GenFxBucketizedChunked *)

\* The plan is made and the jobs have it.
ChunkPlanned == fxChunked.pc = "planned"

\* The entries the jobs compute in the trailing chunk, the one after the
\* chunkCount full ones.
ChunkTrailingComputed ==
    SumUpTo([ i \in 0..(fxChunked.threadCount - 1) |->
                RunForTableChunkEntries(fxChunked.jobs[i + 1],
                                        fxChunked.chunkCount) ],
            fxChunked.threadCount - 1)

\* C27: the chunk plan covers the input exactly: chunkCount *
\* entriesPerChunk + trailingChunkEntries = entryCount with 0 <=
\* trailingChunkEntries < entriesPerChunk, in unsigned arithmetic without
\* wrap-around, and the trailing chunk processes exactly
\* trailingChunkEntries entries rather than a full chunk.
C27_PlanCoversTheInput ==
    ChunkPlanned =>
        /\ fxChunked.chunkCount * fxChunked.entriesPerChunk
              + fxChunked.chunkTrailingEntries = fxChunked.entryCount
        /\ fxChunked.chunkTrailingEntries < fxChunked.entriesPerChunk
        /\ fxChunked.chunkTrailingEntries # 0 =>
              ChunkTrailingComputed = fxChunked.chunkTrailingEntries

\* What holds of the code: an unchunked call, chunkSize = 0, gets the plan
\* of one chunk with all entries and no trailing chunk.
C27_UnchunkedPlan ==
    ChunkPlanned /\ fxChunked.chunkSize = 0 =>
        /\ fxChunked.entriesPerChunk = fxChunked.entryCount
        /\ fxChunked.chunkCount = 1
        /\ fxChunked.chunkTrailingEntries = 0

\* A chunked call whose plan does not cover the input: chunks of two
\* entries for three entries.
C27_WrongPlanReached ==
    ~( /\ ChunkPlanned
       /\ fxChunked.diskQueue
       /\ fxChunked.entryCount = 3
       /\ fxChunked.entriesPerChunk = 2
       /\ fxChunked.chunkCount * 2 + fxChunked.chunkTrailingEntries # 3 )

\* A chunked call with a right plan and a trailing chunk, in which the jobs
\* compute a full chunk: chunks of two entries for five entries.
C27_FullTrailingChunkReached ==
    ~( /\ ChunkPlanned
       /\ fxChunked.entryCount = 5
       /\ fxChunked.chunkCount = 2
       /\ fxChunked.chunkTrailingEntries = 1
       /\ ChunkTrailingComputed = 2 )


-----------------------------------------------------------------------------
(* The output of ComputeFxForTable *)

\* Job id makes a pass of the loop of ComputeFxForTable.
FxComputes(id) ==
    /\ fxjob[id].pc = "compute"
    /\ fxjob[id].i < fxjob[id].entryCount
    /\ fxjob'[id] # fxjob[id]

\* The pass of job id stores what it computed from the pair at index i in
\* yOut[i], bucketOut[i] and, where the table has a meta, metaOutA[i], and
\* leaves every other index of the buffers as it was.
FxStoresAtOwnIndex(id) ==
    LET i == fxjob[id].i
    IN  \E pair \in FxPairsAt(fxjob[id].pairs + i) :
            LET fx == ComputeFx(fxBucketIdx, pair)
            IN  /\ fxOut' = [ fxOut EXCEPT ![i] =
                                [ y    |-> fx.y,
                                  meta |-> IF fxTable = "Table7"
                                             THEN @.meta ELSE fx.meta ] ]
                /\ fxBucketIdOut' = [ fxBucketIdOut EXCEPT ![i] = fx.bucket ]

\* C29: for every table and every pair index i of a worker's slice,
\* ComputeFxForTable stores the y', the bucket tag and the output meta
\* computed from pair i at output index i: one output record per input
\* pair, and no pair's output overwrites another pair's.
C29_OutputAtIndexOfPair ==
    [][ \A id \in FxJobs : FxComputes(id) => FxStoresAtOwnIndex(id) ]_vars

\* What holds of the code: so it is for the tables other than table 6.
C29_OutputAtIndexOfPairButTable6 ==
    [][ \A id \in FxJobs :
          FxComputes(id) /\ fxTable # "Table6" => FxStoresAtOwnIndex(id) ]_vars

\* A job of a stage of table 6 is through ComputeFxForTable with two pairs:
\* the meta of the second is at index 0, and index 1 holds none.
C29_MetaAtIndexZeroReached ==
    ~( /\ fxTable = "Table6"
       /\ fxThreadCount = 1
       /\ fxjob[0].pc = "count"
       /\ fxjob[0].chunk = 0
       /\ fxOut[1].y # -1
       /\ fxOut[1].meta = << -1, -1 >> )


-----------------------------------------------------------------------------
(* The words of the bit buffer the workers of GenF1 write *)

\* The words of the bit buffer that writer.Write( entry, entrySizeBits )
\* touches for the k-th entry written through the cursor of w: the cursor
\* starts at bit w.bitOffset and moves on by entrySizeBits with every entry.
F1WordsOfEntry(w, k) ==
    { b \div F1WordBits :
        b \in (w.bitOffset + (k - 1) * entrySizeBits)
                ..(w.bitOffset + k * entrySizeBits - 1) }

\* The barrier phases of the bit-compression loop of a round: phase p lies
\* between the SyncThreads of pass p - 1 and that of pass p. A job writes
\* the first two entries of pass i in phase i, and the rest of them, behind
\* the SyncThreads of the pass, in phase i + 1.
F1WordsInPhase(w, p) ==
    UNION { F1WordsOfEntry(w, k) :
              k \in { j \in 1..Len(w.entries) :
                        \/ p = w.i /\ j <= 2
                        \/ p = w.i + 1 /\ j > 2 } }

\* C31: during the bit compression no two workers write to the same machine
\* word of a bucket's bit buffer in the same barrier phase: each worker
\* first writes its first two entries of the bucket, all workers then
\* synchronize, and only then does each worker write its remaining
\* entries, so that the windows of adjacent workers, which share a boundary
\* word, are never written concurrently.
C31_NoWordSharedInAPhase ==
    \A w1, w2 \in f1Writes :
        /\ w1.job # w2.job
        /\ w1.round = w2.round
        /\ w1.bucket = w2.bucket
        => \A p \in 0.._numBuckets :
              F1WordsInPhase(w1, p) \cap F1WordsInPhase(w2, p) = {}

\* What holds of the code: the order of the writes. A job writes the rest
\* of the entries of pass i only when every job of the round has written
\* its first two entries of pass i.
C31_FirstTwoBeforeTheRest ==
    \A w \in f1Writes :
        Len(w.entries) > 2 =>
            \A t \in F1Jobs :
                \E v \in f1Writes : /\ v.job = t
                                    /\ v.round = w.round
                                    /\ v.i = w.i
                                    /\ Len(v.entries) >= 2

\* Two jobs have written the rest of their entries of the same pass, behind
\* the same SyncThreads, into words they share.
C31_RestOverlapsReached ==
    ~( \E w1, w2 \in f1Writes :
          /\ w1.job # w2.job
          /\ w1.round = w2.round
          /\ w1.i = w2.i
          /\ Len(w1.entries) > 2
          /\ Len(w2.entries) > 2
          /\ F1WordsInPhase(w1, w1.i + 1) \cap F1WordsInPhase(w2, w2.i + 1) # {} )


-----------------------------------------------------------------------------
(* The calls GenF1 makes on the bit writer *)

\* The rounds for which BeginWriteBuckets must have been called when job
\* id stands where it stands: those before its own, and its own once it is
\* past the release of the control thread; between the prefix sum and the
\* release a job other than the control thread may find either.
F1RoundsBegun(id) ==
    IF f1job[id].pc \in { "distribute", "compress", "compressSync", "sync" }
      THEN { f1job[id].bucket + 1 }
      ELSE IF f1job[id].pc \in { "prefixSum", "totals" } /\ id # 0
             THEN { f1job[id].bucket, f1job[id].bucket + 1 }
             ELSE { f1job[id].bucket }

\* Job t has written all its entries of round r: it is through the
\* bit-compression loop of the round, and every pass has its record with
\* all the entries of the window.
F1WroteRound(t, r) ==
    /\ \/ f1job[t].bucket > r
       \/ f1job[t].bucket = r /\ f1job[t].pc = "sync"
    /\ \A i \in F1Buckets :
          \E w \in f1Writes : /\ w.job = t
                              /\ w.round = r
                              /\ w.i = i
                              /\ Len(w.entries) = Max(2, w.count)

C32_States ==
    \A id \in F1Jobs :
        /\ Len(f1BeginWrite) \in F1RoundsBegun(id)
        /\ f1Submitted = f1job[0].bucket
        /\ \A r \in 0..(f1Submitted - 1) : F1WroteRound(id, r)
        /\ f1job[id].leftOvers = IF id = 0 /\ f1job[id].pc = "done" THEN 1 ELSE 0

C32_Steps ==
    /\ f1BeginWrite' # f1BeginWrite =>
          /\ f1BeginWrite' = Append(f1BeginWrite,
                [ i \in F1Buckets |-> F1TotalCounts[i] * entrySizeBits ])
          /\ f1job[0].pc = "totals"
          /\ f1job'[0].pc = "distribute"
          /\ \A t \in F1Jobs : /\ f1job[t].bucket = f1job[0].bucket
                               /\ f1job[t].pc \in { "prefixSum", "totals" }
          /\ \A w \in f1Writes : w.round < f1job[0].bucket
    /\ f1Submitted' # f1Submitted =>
          /\ f1Submitted' = f1Submitted + 1
          /\ f1job[0].pc = "sync"
          /\ f1job'[0].bucket = f1job[0].bucket + 1
          /\ \A t \in F1Jobs : F1WroteRound(t, f1job[0].bucket)
    /\ \A id \in F1Jobs :
          f1job'[id].leftOvers # f1job[id].leftOvers =>
              /\ id = 0
              /\ f1job'[id].leftOvers = 1
              /\ f1Submitted' = _numBuckets

\* C32: in every round of GenF1 BeginWriteBuckets is called exactly once,
\* by the control worker, after the counts of all workers are summed and
\* before any worker obtains a bit-cursor; Submit is called exactly once,
\* by the control worker, only after every worker has written its entries
\* of the round; and SubmitLeftOvers is called exactly once, by the control
\* worker, after the Submit of the last round.
C32_CallsOfTheControlWorker == []C32_States /\ [][C32_Steps]_vars

\* GenF1 has run with more than one job: every round was begun and
\* submitted, and the left-overs were submitted.
C32_Witness ==
    /\ F1Done
    /\ f1ThreadCount > 1
    /\ Len(f1BeginWrite) = _numBuckets
    /\ f1Submitted = _numBuckets
    /\ f1job[0].leftOvers = 1
    /\ f1job[f1ThreadCount - 1].leftOvers = 0


-----------------------------------------------------------------------------
(* What is written is read back *)

\* ReadFile is through: the first `size` bytes of its buffer are those of
\* the buffer of WriteFile, and under direct I/O it transferred the size
\* rounded up to whole blocks.
RoundTripReadBack ==
    /\ \A j \in 1..rt.size : rt.dst[j] = rt.buffer[j]
    /\ rt.directIO => rt.transferred = CDivT(rt.size, BlockSize) * BlockSize

\* C33: under either I/O mode, WriteFile(f, b, buf, n), then SeekFile back
\* to the offset at which the write started, then ReadFile(f, b, dst, n)
\* ends without an I/O failure and leaves the first n bytes of dst equal
\* to buf[0..n); under direct I/O the read transfers ceil(n/S)*S bytes,
\* all of which exist in the file.
C33_ReadBackWhatWasWritten ==
    /\ rt.pc # "fatal"
    /\ rt.pc = "done" => RoundTripReadBack

\* What holds of the code: the same, as long as the one Write of the block
\* buffer returned the whole block.
C33_ReadBackUnlessShortBlock ==
    ~rt.shortBlock =>
        /\ rt.pc # "fatal"
        /\ rt.pc = "done" => RoundTripReadBack

\* After a short write of the block buffer the read runs into the end of
\* the file.
C33_ReadPastEndReached ==
    ~( rt.pc = "fatal" /\ rt.shortBlock /\ rt.directIO )


-----------------------------------------------------------------------------
(* The output arrays the jobs of a stage share *)

\* Job u has written element i of yOut, bucketOut and metaOutA in the
\* compute phase of the chunk it is in, and has passed no barrier since.
FxWroteInPhase(u, i) ==
    \/ fxjob[u].pc = "compute" /\ fxjob[u].i > i
    \/ fxjob[u].pc \in { "count", "sync" } /\ fxjob[u].entryCount > i

\* Job id reads bucketIndices[i], to count it or to scatter by it.
FxReadsTag(id) ==
    /\ fxjob[id].pc \in { "count", "distribute" }
    /\ fxjob[id].i < fxjob[id].entryCount
    /\ fxjob'[id] # fxjob[id]

\* The tag at index i is one job id computes for pair i of its slice.
FxTagIsOwn(id) ==
    \E pair \in FxPairsAt(fxjob[id].pairs + fxjob[id].i) :
        fxBucketIdOut[fxjob[id].i] = ComputeFx(fxBucketIdx, pair).bucket

C34_Steps ==
    \A id \in FxJobs :
        /\ FxComputes(id) =>
              \A u \in FxJobs \ { id } :
                  fxjob[u].chunk = fxjob[id].chunk
                      => ~FxWroteInPhase(u, fxjob[id].i)
        /\ FxReadsTag(id) => FxTagIsOwn(id)

\* C34: during the compute phase of a round no two workers write to the
\* same element of the shared y-output, meta-output or bucket-tag arrays,
\* and the bucket tags a worker counts and scatters by are the tags it
\* computed itself for its own pairs.
C34_OwnElementsAndOwnTags == [][C34_Steps]_vars

\* What holds of the code: a job counts by the tags that stand at the
\* indexes 0 .. entryCount - 1 of the array all jobs share; they are its own
\* where it is the only job.
C34_OwnTagsOfTheOnlyJob ==
    [][ fxThreadCount = 1 =>
          \A id \in FxJobs : FxReadsTag(id) /\ fxjob[id].pc = "count"
                                => FxTagIsOwn(id) ]_vars

\* Two jobs are through the compute phase of the same chunk, and both have
\* written element 0 of the arrays.
C34_SameElementReached ==
    ~( \E t, u \in FxJobs :
          /\ t # u
          /\ fxjob[t].chunk = fxjob[u].chunk
          /\ fxjob[t].pc = "count"
          /\ fxjob[u].pc = "count"
          /\ FxWroteInPhase(t, 0)
          /\ FxWroteInPhase(u, 0) )


-----------------------------------------------------------------------------
(* What DistributeIntoBuckets scatters *)

\* The scatter step of job id writes inside the output buffers.
FxScattersInside(id) ==
    /\ FxScatters(id)
    /\ FxScatterIndex(id) \in 0..(FxOutLen - 1)

\* The entry the step writes is what ComputeFxForTable made of pair i of
\* the job: its y' and, for a table with a meta, its meta.
FxScattersComputed(id) ==
    \E pair \in FxPairsAt(fxjob[id].pairs + fxjob[id].i) :
        LET fx == ComputeFx(fxBucketIdx, pair)
        IN  /\ fxOut'[FxScatterIndex(id)].y = fx.y
            /\ fxTable # "Table7" => fxOut'[FxScatterIndex(id)].meta = fx.meta

\* The step does not write where ComputeFxForTable left the entry of a
\* pair the job has yet to scatter.
FxScatterSparesUnread(id) ==
    \A j \in (fxjob[id].i + 1)..(fxjob[id].entryCount - 1) :
        FxScatterIndex(id) # j

\* C35: the y and meta values that DistributeIntoBuckets scatters into the
\* output buckets are exactly the y' and meta values ComputeFxForTable
\* produced for the same pairs in the same round: the scatter reads the
\* buffer the compute step wrote, and its destination does not overwrite
\* values it still has to read.
C35_ScatterOfTheComputedValues ==
    [][ \A id \in FxJobs :
          FxScattersInside(id) =>
              FxScattersComputed(id) /\ FxScatterSparesUnread(id) ]_vars

\* What holds of the code: the scatter copies yTmp[i] and metaTmpA[i] of
\* the job, which ComputeFxForTable does not write, into yOut and metaOutA,
\* which it does.
C35_ScatterOfTheTmpBuffers ==
    [][ \A id \in FxJobs :
          FxScattersInside(id) =>
              LET from == fxTmp[fxjob[id].yTmp + fxjob[id].i]
              IN  /\ fxOut'[FxScatterIndex(id)].y = from.y
                  /\ fxTable # "Table7"
                        => fxOut'[FxScatterIndex(id)].meta = from.meta
                  /\ fxTmp' = fxTmp ]_vars

\* The only job of a stage has scattered its entries: what stands in the
\* output is what yTmp held before the stage, and no y' the stage computed
\* for the first pair.
C35_StaleOutputReached ==
    ~( /\ fxThreadCount = 1
       /\ fxjob[0].pc = "totals"
       /\ fxjob[0].chunk = 0
       /\ \E d \in DOMAIN fxOut :
             /\ fxOut[d].y = fxTmp[0].y
             /\ \A c \in fxComputed : c.y # fxOut[d].y )


-----------------------------------------------------------------------------
(* The life of the counts a job publishes *)

\* Job id may still read the counts of job t through GetJob( t ).counts:
\* those of every job while it adds them up, those of the jobs after it
\* while it subtracts them.
FxMayRead(id, t) ==
    \/ fxjob[id].pc = "sum"
    \/ fxjob[id].pc = "subtract" /\ t > id

\* Job t holds the counts it published for the round job id reads them in:
\* it waits at the barrier of that round, or is behind it and still in its
\* call of DistributeIntoBuckets.
FxHoldsCountsFor(t, id) ==
    /\ fxjob[t].countsLive
    /\ \/ fxjob[t].syncs = fxjob[id].syncs - 1 /\ fxjob[t].pc = "sync"
       \/ /\ fxjob[t].syncs = fxjob[id].syncs
          /\ fxjob[t].pc \in { "sum", "subtract", "distribute" }

\* C36: the counts a worker published stay valid and unmodified from the
\* moment it publishes them until every other worker has finished reading
\* them for the prefix sum of the round: no worker returns from the
\* distribution, or starts counting for the next chunk, while another
\* worker may still read its counts.
C36_CountsKeptWhileRead ==
    \A id, t \in FxJobs : FxMayRead(id, t) => FxHoldsCountsFor(t, id)

\* What holds of the code: from the barrier to the end of its call a job
\* does not change the counts it published.
C36_CountsUnchangedInTheCall ==
    [][ \A t \in FxJobs :
          /\ fxjob[t].pc \in { "sync", "sum", "subtract", "distribute" }
          /\ fxjob'[t].pc \in { "sync", "sum", "subtract", "distribute" }
          => fxjob'[t].counts = fxjob[t].counts ]_vars

\* A job counts for its next chunk while another job still adds up the
\* counts of the chunk before.
C36_CountingNextChunkReached ==
    ~( \E id, t \in FxJobs :
          /\ fxjob[id].pc = "sum"
          /\ fxjob[t].pc = "count"
          /\ fxjob[t].chunk = fxjob[id].chunk + 1 )


-----------------------------------------------------------------------------
(* The region of `blocks` of a job of GenF1 *)

\* The keystream of the round fits the region of the job and the array.
F1KeystreamFits ==
    /\ f1Region.keystreamWords <= f1Region.regionWords
    /\ f1Region.blocks + f1Region.keystreamWords <= f1Region.allocCount

\* C37: for every worker and every round of GenF1 the keystream the worker
\* generates (blockCount * entriesPerBlock words, where the last worker
\* takes the remainder of the bucket's entries) fits inside the worker's
\* own region of the blocks array (blocksPerThread * entriesPerBlock
\* words, sized from ceil( entriesPerBucket / T )), so that no worker
\* writes into the region of another or past the end of the array.
C37_KeystreamInsideOwnRegion ==
    f1Region.pc \in { "round", "done" } => F1KeystreamFits

\* What holds of the code: the keystream fits for every worker but the
\* last, and for the last one when the entries of a round leave a
\* remainder of at most one over the thread count.
C37_FitsButForTheLastWorker ==
    f1Region.pc \in { "round", "done" } =>
        \/ /\ IsLastThread(f1Region.threadCount, f1Region.id)
           /\ _entriesPerBucket % f1Region.threadCount > 1
        \/ F1KeystreamFits

\* The last worker has taken more blocks of keystream than its region
\* holds: it has written past the end of the array.
C37_PastTheArrayReached ==
    ~( /\ f1Region.pc = "done"
       /\ IsLastThread(f1Region.threadCount, f1Region.id)
       /\ f1Region.blocks + f1Region.keystreamWords > f1Region.allocCount )

-----------------------------------------------------------------------------
(* The sizes a WriteBuckets command writes *)

\* C39: the per-bucket sizes a WriteBuckets command writes are the sizes
\* that were in effect when the producer submitted the command: changes
\* the producer makes to its sizes array after the submission and before
\* the dispatcher executes the command do not change what is written.
C39_SizesAsSubmitted ==
    \A i \in 1..Len(wb.read) : wb.read[i] = wb.submitted[i - 1]

\* What holds of the code: the handler takes each size from the producer's
\* array as it stands when the pass of the loop reads it.
C39_SizesAsReadFromTheArray ==
    [][ wb'.read # wb.read =>
          wb'.read = Append(wb.read, wb.sizes[wb.i]) ]_vars

\* The handler is through, with a size the producer stored after the
\* submission and before the handler began.
C39_LaterSizeReached ==
    ~( /\ wb.pc = "done"
       /\ wb.read[1] # wb.submitted[0]
       /\ wb.read[1] = wb.sizes[0] )

-----------------------------------------------------------------------------
(* C38: the barriers of the jobs *)

\* The chunk passes a job of GenFxBucketized makes, each with one
\* SyncThreads: chunkCount, and one more for the trailing chunk (lines
\* 376, 407-414).
FxChunkPasses(id) ==
    IF fxjob[id].pc = "run"
      THEN fxjob[id].chunkCount
             + (IF fxjob[id].trailingChunkEntries # 0 THEN 1 ELSE 0)
      ELSE fxjob[id].chunkCount

\* Job id waits at a barrier that job t, which has left RunForTable, never
\* comes to.
FxWaitsForGone(id, t) ==
    /\ fxjob[id].pc = "sync"
    /\ fxjob[t].pc = "done"
    /\ fxjob[t].syncs <= fxjob[id].syncs

\* C38: all workers of a job execute the same sequence of barrier
\* operations, so no worker waits forever at a barrier and the job
\* terminates on every worker: no job of GenFxBucketized waits at a
\* SyncThreads that another job, done with its chunks, never comes to.
C38_NoJobWaitsForever ==
    \A id, t \in FxJobs : ~FxWaitsForGone(id, t)

\* What holds: the jobs that make the same number of chunk passes meet at
\* every barrier, and then a job can always take its next step until all
\* are done or one has stopped the process with a store outside its
\* buffers.
C38_SamePassesSameBarriers ==
    (\A id, t \in FxJobs : FxChunkPasses(id) = FxChunkPasses(t)) =>
        /\ \A id, t \in FxJobs : ~FxWaitsForGone(id, t)
        /\ \/ FxDone
           \/ \E id \in FxJobs : fxjob[id].pc = "fault"
           \/ ENABLED NextFx

\* A job waits for one that is gone, and no job can take a step.
C38_StuckAtBarrierReached ==
    ~( /\ \E id, t \in FxJobs : FxWaitsForGone(id, t)
       /\ ~ENABLED NextFx )


-----------------------------------------------------------------------------
(* C40: the y of GenF1 against GetProofF1 of the plot validator *)

\* const uint64 blockIdx = x * k / kF1BlockSizeBits
ProofBlockIdx(x) == (x * _K) \div kF1BlockSizeBits

\* const uint64 bitStart = x * k - blockIdx * kF1BlockSizeBits
ProofBitStart(x) == x * _K - ProofBlockIdx(x) * kF1BlockSizeBits

\* GetProofF1 for one x: two keystream blocks from blockIdx on, the k bits
\* at bitStart read as a big-endian number, and
\* y = ( y << kExtraBits ) | ( x >> xShift ).
GetProofF1(id, x) ==
    LET blocks == KeystreamBlocks(id, ProofBlockIdx(x), 2)
        y      == blocks[ProofBitStart(x) \div _K]
    IN  y * (2 ^ kExtraBits) + x \div (2 ^ (TableBits - kExtraBits))

\* The x range job 0 takes in the first round, which starts at keystream
\* block 0.
F1FirstRange == 0..(F1ThreadEntries(f1ThreadCount, 0, _entriesPerBucket) - 1)

\* C40: for every x and every worker count, the y that F1 emits for x is
\* the f1 value the plot validator recomputes for the same plot id and x.
C40_YIsTheValidatorsF1 ==
    \A e \in f1Produced : e.y = GetProofF1(plotId, e.x)

\* What holds: the y of the x range that starts at x = 0 is the
\* validator's.
C40_YOfTheFirstRangeIsTheValidatorsF1 ==
    \A e \in f1Produced : e.x \in F1FirstRange => e.y = GetProofF1(plotId, e.x)

\* An x of a later range got a y the validator does not recompute.
C40_OtherYReached ==
    ~( /\ F1Done
       /\ \E e \in f1Produced : /\ e.x \notin F1FirstRange
                                /\ e.y # GetProofF1(plotId, e.x) )


=============================================================================
